---- MODULE Spec2Model ----
(***************************************************************************)
(* Model of the compiled layout and render engine of forme (package tui):  *)
(* Build compiles a declarative UI tree into a flat Template (ops, geom,   *)
(* byDepth); Execute runs width distribution, bottom-up layout, column     *)
(* flex distribution and the render walk over it.                          *)
(*                                                                         *)
(* Conventions of the model                                                *)
(*  - op indices are the 0-based indices of the Go slices; the op at       *)
(*    index i is t.ops[i+1].                                               *)
(*  - a Go pointer is a pair <<block, offset>>; NilPtr is the nil pointer. *)
(*    Pointer arithmetic (base + offset) adds to the offset.               *)
(*  - a nilable *Template or interface value is a sequence of length 0     *)
(*    (nil) or 1.                                                          *)
(*  - a string is a sequence of one-character strings, so that its cell    *)
(*    count is Len and clipping is SubSeq.                                 *)
(*  - the Buffer is an external primitive: the engine's output is the      *)
(*    sequence of draw commands it issues (log); Cells paints them.        *)
(***************************************************************************)
EXTENDS Integers, Sequences, FiniteSets, TLC

VARIABLES
  decl,   \* index of the declaration Build was called with
  tmpl,   \* the compiled Template, with its geom and all sub-templates
  flag,   \* caller-owned bool cell (CondPtr of an IfNode)
  val,    \* caller-owned int cell (operand of condition / switch nodes)
  txt,    \* caller-owned string cell (StrPtr of a Text)
  items,  \* caller-owned slice of elements (ForEach Items)
  sel,    \* caller-owned int cell (Selected of a SelectionList)
  pool,   \* a BufferPool with its render loop and its clearer goroutine
  evloop, \* a Loop with the goroutines that use it
  pc,     \* position inside Execute: "idle", "widths", "layout", "flex"
  scr,    \* <<screenW, screenH>> of the Execute in progress / last Execute
  log,    \* draw commands issued to the Buffer by the last Execute
  ran,    \* an Execute has completed and the caller's values are unchanged since
  mut     \* history: the caller has changed a bound value since Build

engine == <<decl, tmpl, flag, val, txt, items, sel, pc, scr, log, ran, mut>>
vars == <<engine, pool, evloop>>

-----------------------------------------------------------------------------
(* Bounds of the model *)

MaxItems == 2        \* longest slice the caller builds
MaxVal == 2          \* the int cell ranges over 0..MaxVal

-----------------------------------------------------------------------------
(* Slices and int16 arithmetic *)

\* make([]T, n): n zero values
RECURSIVE Repeat(_, _)
Repeat(x, n) == IF n <= 0 THEN <<>> ELSE Append(Repeat(x, n - 1), x)

I16(x) == ((x + 32768) % 65536) - 32768

Max(a, b) == IF a > b THEN a ELSE b
Min(a, b) == IF a < b THEN a ELSE b

\* Go's conversion of a non-integral float to an integer truncates toward zero.
TruncDiv(a, b) == IF a >= 0 THEN a \div b ELSE -((-a) \div b)

-----------------------------------------------------------------------------
(* Caller memory *)

NilPtr == <<"nil", 0>>
PtrAdd(p, off) == <<p[1], p[2] + off>>

AddrFlag == <<"flag", 0>>
AddrVal == <<"val", 0>>
AddrTxt == <<"txt", 0>>
AddrItems == <<"items", 0>>      \* the *[]Elem the caller passes
AddrSel == <<"sel", 0>>          \* the *int a SelectionList takes as Selected
DataBase == <<"data", 0>>        \* backing array of the slice
ProbeBase == <<"probe", 0>>      \* the dummy element of compileForEach

\* type Elem struct { Name string; N int }: one unit of offset per field.
ElemFields == <<"Name", "N">>
ElemSize == Len(ElemFields)
FieldOff(name) == CHOOSE j \in 0..(ElemSize - 1) : ElemFields[j + 1] = name
ElemZero == [Name |-> <<>>, N |-> 0]

Chars(c, n) == [j \in 1..n |-> c]

\* The element values the caller stores in the slice.
ElemA == [Name |-> Chars("a", 1), N |-> 0]
ElemB == [Name |-> Chars("b", 3), N |-> 1]
Elems == {ElemA, ElemB}

\* *p for a pointer into caller memory.  The probe element is zero-initialised.
\* Reading past the slice's length reads the zero element.
Load(p) ==
  CASE p[1] = "flag" -> flag
    [] p[1] = "val" -> val
    [] p[1] = "txt" -> txt
    [] p[1] = "sel" -> sel
    [] p[1] = "probe" -> ElemZero[ElemFields[p[2] + 1]]
    [] p[1] = "data" ->
         LET i == p[2] \div ElemSize
             f == ElemFields[(p[2] % ElemSize) + 1]
         IN IF i < Len(items) THEN items[i + 1][f] ELSE ElemZero[f]

\* sliceHdr := *(*sliceHeader)(op.SlicePtr)
sliceHeader(p) == [Data |-> DataBase, Len |-> Len(items)]

isWithinRange(p, base, size) ==
  p[1] = base[1] /\ p[2] >= base[2] /\ p[2] < base[2] + size

-----------------------------------------------------------------------------
(* Conditions (condition.go) *)

evaluateOp(cop, v, cv) ==
  CASE cop = "Eq" -> v = cv
    [] cop = "Ne" -> v /= cv
    [] cop = "Gt" -> v > cv
    [] cop = "Lt" -> v < cv
    [] cop = "Gte" -> v >= cv
    [] cop = "Lte" -> v <= cv
    [] OTHER -> FALSE

\* OrdConditionEval.evaluate: v := *e.ptr, then the comparator.
evaluate(e) == evaluateOp(e.op, Load(e.ptr), e.val)

\* evaluateWithBase: a condition whose pointer was found inside the iteration
\* element at compile time (setOffset) reads base+offset; any other condition,
\* or a nil base, reads through its own pointer.
evaluateWithBase(e, base) ==
  IF e.hasOff /\ base /= NilPtr
    THEN evaluateOp(e.op, Load(PtrAdd(base, e.off)), e.val)
    ELSE evaluate(e)

\* Switch node: the index of the first case whose value equals *ptr, else -1.
RECURSIVE firstMatch(_, _, _)
firstMatch(vals, v, i) ==
  IF i > Len(vals) THEN -1
  ELSE IF vals[i] = v THEN i - 1
  ELSE firstMatch(vals, v, i + 1)

getMatchIndex(sw) == firstMatch(sw.vals, Load(sw.ptr), 1)

-----------------------------------------------------------------------------
(* Declarations: the node values Build accepts *)

NoFlex == [percentWidth |-> 0, width |-> 0, height |-> 0, flexGrow |-> 0]

Text(s) == [k |-> "Text", static |-> TRUE, s |-> s, p |-> NilPtr]
TextPtr(p) == [k |-> "Text", static |-> FALSE, s |-> <<>>, p |-> p]
Container(isRow, children, gap, border, f) ==
  [k |-> "Container", isRow |-> isRow, children |-> children, gap |-> gap,
   border |-> border, flex |-> f]
Row(children) == Container(TRUE, children, 0, FALSE, NoFlex)
Col(children) == Container(FALSE, children, 0, FALSE, NoFlex)
IfNode(condPtr, then) == [k |-> "IfNode", cond |-> condPtr, then |-> then]
Cond(ptr, cop, cv, then, els) ==
  [k |-> "Cond", ptr |-> ptr, op |-> cop, val |-> cv, then |-> then, els |-> els]
ForEach(itemsPtr, body) == [k |-> "ForEach", items |-> itemsPtr, render |-> body]
Switch(ptr, vals, cases, def) ==
  [k |-> "Switch", ptr |-> ptr, vals |-> vals, cases |-> cases, def |-> def]
Box(layoutFn, children) == [k |-> "Box", layout |-> layoutFn, children |-> children]
\* &SelectionList{Items, Selected, Marker, MaxVisible, Render}
SelectionList(itemsPtr, selPtr, marker, maxVisible, body) ==
  [k |-> "SelectionList", items |-> itemsPtr, selected |-> selPtr, marker |-> marker,
   maxVisible |-> maxVisible, render |-> body]
NilNode == [k |-> "Nil"]
UnknownNode == [k |-> "Unknown"]

Gap(n, g) == [n EXCEPT !.gap = g]
Border(n) == [n EXCEPT !.border = TRUE]
Grow(n, g) == [n EXCEPT !.flex = [@ EXCEPT !.flexGrow = g]]
Width(n, w) == [n EXCEPT !.flex = [@ EXCEPT !.width = w]]
Height(n, h) == [n EXCEPT !.flex = [@ EXCEPT !.height = h]]

-----------------------------------------------------------------------------
(* Template, Op, Geom *)

ZeroGeom == [W |-> 0, H |-> 0, LocalX |-> 0, LocalY |-> 0, ContentH |-> 0]

ZeroOp ==
  [Kind |-> "OpText", Depth |-> 0, Parent |-> 0,
   StaticStr |-> <<>>, StrPtr |-> NilPtr, StrOff |-> 0,
   Width |-> 0, Height |-> 0, PercentWidth |-> 0, FlexGrow |-> 0, Gap |-> 0,
   IsRow |-> FALSE, Border |-> FALSE, ChildStart |-> 0, ChildEnd |-> 0,
   CondPtr |-> NilPtr, CondNode |-> <<>>, ThenTmpl |-> <<>>, ElseTmpl |-> <<>>,
   IterTmpl |-> <<>>, SlicePtr |-> NilPtr, ElemSize |-> 0,
   iterGeoms |-> <<>>, iterCap |-> 0,
   SwitchNode |-> <<>>, SwitchCases |-> <<>>, SwitchDef |-> <<>>,
   CustomLayout |-> "",
   SelectionListPtr |-> <<>>, SelectedPtr |-> NilPtr, Marker |-> <<>>, MarkerWidth |-> 0]

\* &Template{ops: make([]Op, 0, n), byDepth: make([][]int16, depths)}
NewTemplate(depths) ==
  [ops |-> <<>>, geom |-> <<>>, maxDepth |-> 0,
   byDepth |-> Repeat(<<>>, depths), elemBase |-> NilPtr]

MainDepths == 16
SubDepths == 8

addOp(t, op, depth) ==
  LET idx == Len(t.ops)
      bd == IF depth >= Len(t.byDepth)
              THEN t.byDepth \o Repeat(<<>>, depth + 1 - Len(t.byDepth))
              ELSE t.byDepth
  IN [ops |-> Append(t.ops, [op EXCEPT !.Depth = depth]),
      geom |-> t.geom,
      maxDepth |-> IF depth > t.maxDepth THEN depth ELSE t.maxDepth,
      byDepth |-> [bd EXCEPT ![depth + 1] = Append(@, idx)],
      elemBase |-> t.elemBase]

-----------------------------------------------------------------------------
(* Compiler *)

RECURSIVE compile(_, _, _, _, _, _)
RECURSIVE compileChildren(_, _, _, _, _, _, _)
RECURSIVE compileCases(_, _, _, _, _)

\* The sub-template blocks of compileIf / compileCondition / compileSwitch /
\* compileForEach: a fresh Template, compile, slice byDepth, allocate geom.
subTemplate(node, eb, es) ==
  LET c == compile(NewTemplate(SubDepths), node, -1, 0, eb, es)
      bd == IF c.maxDepth >= 0 THEN SubSeq(c.byDepth, 1, c.maxDepth + 1)
            ELSE c.byDepth
  IN [c EXCEPT !.byDepth = bd, !.geom = Repeat(ZeroGeom, Len(c.ops))]

compileText(t, v, parent, depth, eb, es) ==
  LET op == IF v.static
              THEN [ZeroOp EXCEPT !.Parent = parent, !.Kind = "OpText",
                                  !.StaticStr = v.s]
            ELSE IF eb /= NilPtr /\ isWithinRange(v.p, eb, es)
              THEN [ZeroOp EXCEPT !.Parent = parent, !.Kind = "OpTextOff",
                                  !.StrOff = v.p[2] - eb[2]]
            ELSE [ZeroOp EXCEPT !.Parent = parent, !.Kind = "OpTextPtr",
                                !.StrPtr = v.p]
  IN addOp(t, op, depth)

compileContainer(t, v, parent, depth, eb, es) ==
  LET op == [ZeroOp EXCEPT !.Kind = "OpContainer", !.Parent = parent,
                           !.IsRow = v.isRow, !.Gap = v.gap,
                           !.PercentWidth = v.flex.percentWidth,
                           !.Width = v.flex.width, !.Height = v.flex.height,
                           !.FlexGrow = v.flex.flexGrow, !.Border = v.border]
      idx == Len(t.ops)
      t1 == addOp(t, op, depth)
      childStart == Len(t1.ops)
      t2 == compileChildren(t1, v.children, 1, idx, depth + 1, eb, es)
      childEnd == Len(t2.ops)
  IN [t2 EXCEPT !.ops[idx + 1].ChildStart = childStart,
                !.ops[idx + 1].ChildEnd = childEnd]

\* The Op literal is built before addOp appends it, so ChildStart is
\* len(t.ops) at that moment: the Box's own index.
compileBox(t, v, parent, depth, eb, es) ==
  LET idx == Len(t.ops)
      op == [ZeroOp EXCEPT !.Kind = "OpLayout", !.Parent = parent,
                           !.CustomLayout = v.layout, !.ChildStart = Len(t.ops)]
      t1 == addOp(t, op, depth)
      t2 == compileChildren(t1, v.children, 1, idx, depth + 1, eb, es)
  IN [t2 EXCEPT !.ops[idx + 1].ChildEnd = Len(t2.ops)]

\* compileIf compiles the then branch only; IfNode has no else.
compileIf(t, v, parent, depth, eb, es) ==
  LET op == [ZeroOp EXCEPT !.Kind = "OpIf", !.Parent = parent,
                           !.CondPtr = v.cond,
                           !.ThenTmpl = IF v.then.k /= "Nil"
                                          THEN <<subTemplate(v.then, eb, es)>>
                                          ELSE <<>>]
  IN addOp(t, op, depth)

compileCondition(t, v, parent, depth, eb, es) ==
  LET inElem == eb /= NilPtr /\ es > 0 /\ isWithinRange(v.ptr, eb, es)
      node == [ptr |-> v.ptr, op |-> v.op, val |-> v.val, hasOff |-> inElem,
               off |-> IF inElem THEN v.ptr[2] - eb[2] ELSE 0]
      op == [ZeroOp EXCEPT !.Kind = "OpIf", !.Parent = parent,
                           !.CondNode = <<node>>,
                           !.ThenTmpl = IF v.then.k /= "Nil"
                                          THEN <<subTemplate(v.then, eb, es)>>
                                          ELSE <<>>,
                           !.ElseTmpl = IF v.els.k /= "Nil"
                                          THEN <<subTemplate(v.els, eb, es)>>
                                          ELSE <<>>]
  IN addOp(t, op, depth)

compileCases(cases, i, eb, es, acc) ==
  IF i > Len(cases) THEN acc
  ELSE compileCases(cases, i + 1, eb, es,
         Append(acc, IF cases[i].k /= "Nil"
                       THEN <<subTemplate(cases[i], eb, es)>> ELSE <<>>))

compileSwitch(t, v, parent, depth, eb, es) ==
  LET op == [ZeroOp EXCEPT !.Kind = "OpSwitch", !.Parent = parent,
                           !.SwitchNode = <<[ptr |-> v.ptr, vals |-> v.vals]>>,
                           !.SwitchCases = compileCases(v.cases, 1, eb, es, <<>>),
                           !.SwitchDef = IF v.def.k /= "Nil"
                                           THEN <<subTemplate(v.def, eb, es)>>
                                           ELSE <<>>]
  IN addOp(t, op, depth)

\* v.render is the node the render function returns for the probe element;
\* the body is compiled with the probe as element base.
compileForEach(t, v, parent, depth) ==
  LET op == [ZeroOp EXCEPT !.Kind = "OpForEach", !.Parent = parent,
                           !.SlicePtr = v.items, !.ElemSize = ElemSize,
                           !.IterTmpl = <<subTemplate(v.render, ProbeBase, ElemSize)>>]
  IN addOp(t, op, depth)

\* The op keeps the pointer to the caller's SelectionList; the object behind
\* it (MaxVisible and the unexported len and offset) is held in the op.
compileSelectionList(t, v, parent, depth) ==
  LET marker == IF v.marker = <<>> THEN <<">", " ">> ELSE v.marker
      op == [ZeroOp EXCEPT !.Kind = "OpSelectionList", !.Parent = parent,
                           !.SlicePtr = v.items, !.ElemSize = ElemSize,
                           !.IterTmpl = IF v.render.k /= "Nil"
                                          THEN <<subTemplate(v.render, ProbeBase, ElemSize)>>
                                          ELSE <<>>,
                           !.SelectionListPtr =
                              <<[MaxVisible |-> v.maxVisible, len |-> 0, offset |-> 0,
                                 Selected |-> v.selected]>>,
                           !.SelectedPtr = v.selected,
                           !.Marker = marker, !.MarkerWidth = I16(Len(marker))]
  IN addOp(t, op, depth)

\* compile with a node of an unrecognised kind compiled to an op.
compileUnknownAsOp(t, node, parent, depth, eb, es) ==
  CASE node.k = "Nil" -> t
    [] node.k = "Text" -> compileText(t, node, parent, depth, eb, es)
    [] node.k = "Container" -> compileContainer(t, node, parent, depth, eb, es)
    [] node.k = "IfNode" -> compileIf(t, node, parent, depth, eb, es)
    [] node.k = "ForEach" -> compileForEach(t, node, parent, depth)
    [] node.k = "Box" -> compileBox(t, node, parent, depth, eb, es)
    [] node.k = "Cond" -> compileCondition(t, node, parent, depth, eb, es)
    [] node.k = "SelectionList" -> compileSelectionList(t, node, parent, depth)
    [] node.k = "Switch" -> compileSwitch(t, node, parent, depth, eb, es)
    [] OTHER -> addOp(t, [ZeroOp EXCEPT !.Kind = "OpCustom", !.Parent = parent], depth)

compile(t, node, parent, depth, eb, es) ==
  CASE node.k = "Nil" -> t
    [] node.k = "Text" -> compileText(t, node, parent, depth, eb, es)
    [] node.k = "Container" -> compileContainer(t, node, parent, depth, eb, es)
    [] node.k = "IfNode" -> compileIf(t, node, parent, depth, eb, es)
    [] node.k = "ForEach" -> compileForEach(t, node, parent, depth)
    [] node.k = "Box" -> compileBox(t, node, parent, depth, eb, es)
    [] node.k = "Cond" -> compileCondition(t, node, parent, depth, eb, es)
    [] node.k = "SelectionList" -> compileSelectionList(t, node, parent, depth)
    [] node.k = "Switch" -> compileSwitch(t, node, parent, depth, eb, es)
    [] OTHER -> t

compileChildren(t, children, i, idx, depth, eb, es) ==
  IF i > Len(children) THEN t
  ELSE compileChildren(compile(t, children[i], idx, depth, eb, es),
                       children, i + 1, idx, depth, eb, es)

\* The index compile returns: that of the op the node is compiled to, which
\* addOp appends first, or the sentinel -1 for nil and for a node of no known
\* kind.
compileIndex(t, node) ==
  IF node.k \in {"Text", "Container", "IfNode", "ForEach", "Box", "Cond",
                 "SelectionList", "Switch"}
    THEN I16(Len(t.ops)) ELSE -1

RECURSIVE trimDepth(_, _)
trimDepth(byDepth, d) ==
  IF d >= 0 /\ Len(byDepth[d + 1]) = 0 THEN trimDepth(byDepth, d - 1) ELSE d

Build(ui) ==
  LET c == compile(NewTemplate(MainDepths), ui, -1, 0, NilPtr, 0)
      md == trimDepth(c.byDepth, c.maxDepth)
      bd == IF md >= 0 THEN SubSeq(c.byDepth, 1, md + 1) ELSE c.byDepth
  IN [c EXCEPT !.maxDepth = md, !.byDepth = bd,
               !.geom = Repeat(ZeroGeom, Len(c.ops))]

-----------------------------------------------------------------------------
(* Shared helpers of the phases *)

opAt(t, i) == t.ops[i + 1]
geomAt(t, i) == t.geom[i + 1]

\* for i := op.ChildStart; i < op.ChildEnd; i++ { if ops[i].Parent != idx continue }
directChildren(t, idx) ==
  LET op == opAt(t, idx)
      RECURSIVE walk(_, _)
      walk(i, acc) ==
        IF i >= op.ChildEnd THEN acc
        ELSE walk(i + 1, IF opAt(t, i).Parent = idx THEN Append(acc, i) ELSE acc)
  IN walk(op.ChildStart, <<>>)

\* for depth := 0; depth <= maxDepth; depth++ { for _, idx := range byDepth[depth] }
topDown(t) ==
  LET RECURSIVE walk(_, _)
      walk(d, acc) ==
        IF d > t.maxDepth THEN acc ELSE walk(d + 1, acc \o t.byDepth[d + 1])
  IN walk(0, <<>>)

\* for depth := maxDepth; depth >= 0; depth-- { for _, idx := range byDepth[depth] }
bottomUp(t) ==
  LET RECURSIVE walk(_, _)
      walk(d, acc) ==
        IF d < 0 THEN acc ELSE walk(d - 1, acc \o t.byDepth[d + 1])
  IN walk(t.maxDepth, <<>>)

borderInset(op) == IF op.Border THEN 2 ELSE 0
contentOff(op) == IF op.Border THEN 1 ELSE 0

\* Height(): the sum of the heights of the root-level ops.
TemplateHeight(t) ==
  LET RECURSIVE sum(_, _)
      sum(i, acc) ==
        IF i > Len(t.ops) THEN acc
        ELSE sum(i + 1, IF t.ops[i].Parent = -1 THEN I16(acc + t.geom[i].H) ELSE acc)
  IN IF Len(t.geom) = 0 THEN 0 ELSE sum(1, 0)

-----------------------------------------------------------------------------
(* Phase 1: width distribution *)

\* The width setOpWidth stores for op, or the old width where it stores none.
opWidth(op, g, availW, eb) ==
  CASE op.Kind = "OpText" -> I16(Len(op.StaticStr))
    [] op.Kind = "OpTextPtr" -> I16(Len(Load(op.StrPtr)))
    [] op.Kind = "OpTextOff" ->
         IF eb /= NilPtr THEN I16(Len(Load(PtrAdd(eb, op.StrOff)))) ELSE 10
    [] op.Kind = "OpLayout" -> availW
    [] op.Kind = "OpContainer" ->
         IF op.Width > 0 THEN op.Width
         ELSE IF op.PercentWidth > 0 THEN I16(TruncDiv(availW * op.PercentWidth, 100))
         ELSE availW
    [] OTHER -> availW

setOpWidth(t, i, availW, eb) ==
  [t EXCEPT !.geom[i + 1].W = opWidth(opAt(t, i), geomAt(t, i), availW, eb)]

distributeColChildWidths(t, idx, availW, eb) ==
  LET kids == directChildren(t, idx)
      RECURSIVE loop(_, _)
      loop(tt, j) ==
        IF j > Len(kids) THEN tt ELSE loop(setOpWidth(tt, kids[j], availW, eb), j + 1)
  IN loop(t, 1)

\* Pass 1 of distributeRowChildWidths: the fixed children get their widths;
\* the result carries usedW, totalFlex and the two lists of flex children.
rowPass1(t, idx, availW, eb) ==
  LET kids == directChildren(t, idx)
      RECURSIVE loop(_, _)
      loop(a, j) ==
        IF j > Len(kids) THEN a
        ELSE LET i == kids[j]
                 c == opAt(a.t, i)
             IN IF c.FlexGrow > 0
                  THEN loop([a EXCEPT !.totalFlex = @ + c.FlexGrow,
                                      !.flexChildren = Append(@, i)], j + 1)
                ELSE IF c.Kind = "OpContainer" /\ c.Width = 0 /\ c.PercentWidth = 0
                  THEN loop([a EXCEPT !.implicitFlexChildren = Append(@, i)], j + 1)
                ELSE LET t1 == setOpWidth(a.t, i, availW, eb)
                     IN loop([a EXCEPT !.t = t1,
                                       !.usedW = I16(@ + geomAt(t1, i).W)], j + 1)
  IN loop([t |-> t, usedW |-> 0, totalFlex |-> 0, flexChildren |-> <<>>,
           implicitFlexChildren |-> <<>>], 1)

\* usedW after the gaps are added.
rowUsedW(t, idx, usedW) ==
  LET childCount == Len(directChildren(t, idx))
      gap == opAt(t, idx).Gap
  IN IF childCount > 1 /\ gap > 0 THEN I16(usedW + I16(gap * (childCount - 1)))
     ELSE usedW

\* float32 arithmetic on the positive values the flex passes use.  A float32
\* keeps 24 significant bits and rounds to nearest, ties to even.
RoundNearestEven(n, d) ==
  LET fl == n \div d
      r == n % d
  IN IF 2 * r > d \/ (2 * r = d /\ fl % 2 = 1) THEN fl + 1 ELSE fl

\* The least s with a * 2^s >= b * 2^23: a / b = q / 2^s with 24 bits in q.
RECURSIVE f32Scale(_, _, _)
f32Scale(a, b, s) == IF a * (2 ^ s) >= b * (2 ^ 23) THEN s ELSE f32Scale(a, b, s + 1)

RECURSIVE bitLen(_)
bitLen(n) == IF n = 0 THEN 0 ELSE 1 + bitLen(n \div 2)

\* n / 2^s rounded to a float32 and truncated to an integer by int16().
f32Trunc(n, s) ==
  LET d == IF bitLen(n) > 24 THEN bitLen(n) - 24 ELSE 0
  IN (RoundNearestEven(n, 2 ^ d) * (2 ^ d)) \div (2 ^ s)

\* flexShare := FlexGrow / totalFlex; int16(float32(remaining) * flexShare)
f32Share(remaining, grow, totalFlex, s) ==
  f32Trunc(remaining * RoundNearestEven(grow * (2 ^ s), totalFlex), s)

flexShareOf(remaining, grow, totalFlex) ==
  I16(f32Share(remaining, grow, totalFlex, f32Scale(grow, totalFlex, 0)))

rowFlexPass(t, flexChildren, remaining, totalFlex) ==
  LET RECURSIVE loop(_, _, _)
      loop(tt, j, distributed) ==
        IF j > Len(flexChildren) THEN tt
        ELSE LET i == flexChildren[j]
                 flexW == IF j = Len(flexChildren) THEN I16(remaining - distributed)
                          ELSE flexShareOf(remaining, opAt(tt, i).FlexGrow, totalFlex)
             IN loop([tt EXCEPT !.geom[i + 1].W = flexW], j + 1,
                     I16(distributed + flexW))
  IN loop(t, 1, 0)

rowImplicitPass(t, implicitFlexChildren, remaining) ==
  LET shareW == remaining \div Len(implicitFlexChildren)
      RECURSIVE loop(_, _, _)
      loop(tt, j, distributed) ==
        IF j > Len(implicitFlexChildren) THEN tt
        ELSE LET i == implicitFlexChildren[j]
                 w == IF j = Len(implicitFlexChildren)
                        THEN I16(remaining - distributed) ELSE shareW
             IN loop([tt EXCEPT !.geom[i + 1].W = w], j + 1, I16(distributed + w))
  IN loop(t, 1, 0)

distributeRowChildWidths(t, idx, availW, eb) ==
  LET p1 == rowPass1(t, idx, availW, eb)
      remaining == I16(availW - rowUsedW(t, idx, p1.usedW))
  IN IF remaining > 0 /\ p1.totalFlex > 0
       THEN rowFlexPass(p1.t, p1.flexChildren, remaining, p1.totalFlex)
     ELSE IF remaining > 0 /\ Len(p1.implicitFlexChildren) > 0
       THEN rowImplicitPass(p1.t, p1.implicitFlexChildren, remaining)
     ELSE p1.t

distributeWidthsToChildren(t, idx, eb) ==
  LET op == opAt(t, idx)
      contentW == I16(geomAt(t, idx).W - borderInset(op))
  IN IF op.IsRow THEN distributeRowChildWidths(t, idx, contentW, eb)
     ELSE distributeColChildWidths(t, idx, contentW, eb)

distributeWidths(t, screenW, eb) ==
  LET roots == t.byDepth[1]
      RECURSIVE setRoots(_, _)
      setRoots(tt, j) ==
        IF j > Len(roots) THEN tt ELSE setRoots(setOpWidth(tt, roots[j], screenW, eb), j + 1)
      order == topDown(t)
      RECURSIVE loop(_, _)
      loop(tt, j) ==
        IF j > Len(order) THEN tt
        ELSE loop(IF opAt(tt, order[j]).Kind = "OpContainer"
                    THEN distributeWidthsToChildren(tt, order[j], eb) ELSE tt,
                  j + 1)
  IN loop(setRoots(t, 1), 1)

-----------------------------------------------------------------------------
(* Phase 2: bottom-up layout *)

\* The layout closures the declarations of the model pass to Box.
\*   "vstack": children stacked top to bottom at the full width
\*   "hstack": children side by side at their minimum sizes
\*   "pad":    children stacked, each one cell wider than its minimum, up to
\*             the available width
\*   "first":  a rectangle for the first child only
applyLayout(name, sizes, availW, availH) ==
  LET RECURSIVE stack(_, _, _)
      stack(j, cur, acc) ==
        IF j > Len(sizes) THEN acc
        ELSE CASE name = "vstack" ->
                    stack(j + 1, cur + sizes[j].MinH,
                          Append(acc, [X |-> 0, Y |-> cur, W |-> availW, H |-> sizes[j].MinH]))
               [] name = "hstack" ->
                    stack(j + 1, cur + sizes[j].MinW,
                          Append(acc, [X |-> cur, Y |-> 0, W |-> sizes[j].MinW, H |-> sizes[j].MinH]))
               [] name = "pad" ->
                    stack(j + 1, cur + sizes[j].MinH,
                          Append(acc, [X |-> 0, Y |-> cur, W |-> Min(sizes[j].MinW + 1, availW),
                                       H |-> sizes[j].MinH]))
               [] OTHER ->
                    IF j = 1
                      THEN stack(j + 1, cur,
                                 Append(acc, [X |-> 0, Y |-> 0, W |-> availW, H |-> sizes[j].MinH]))
                      ELSE acc
  IN stack(1, 0, <<>>)

layoutCustom(t, idx) ==
  LET op == opAt(t, idx)
      kids == directChildren(t, idx)
      childSizes == [j \in 1..Len(kids) |->
                       [MinW |-> geomAt(t, kids[j]).W, MinH |-> geomAt(t, kids[j]).H]]
      rects == applyLayout(op.CustomLayout, childSizes, geomAt(t, idx).W, geomAt(t, idx).H)
      RECURSIVE apply(_, _, _)
      apply(tt, j, maxH) ==
        IF j > Len(kids) THEN [tt EXCEPT !.geom[idx + 1].H = maxH]
        ELSE IF j <= Len(rects)
          THEN LET r == rects[j]
                   bottom == I16(I16(r.Y) + I16(r.H))
               IN apply([tt EXCEPT !.geom[kids[j] + 1].LocalX = I16(r.X),
                                   !.geom[kids[j] + 1].LocalY = I16(r.Y),
                                   !.geom[kids[j] + 1].W = I16(r.W),
                                   !.geom[kids[j] + 1].H = I16(r.H)],
                        j + 1, IF bottom > maxH THEN bottom ELSE maxH)
        ELSE apply(tt, j + 1, maxH)
  IN IF op.CustomLayout = "" THEN t ELSE apply(t, 1, 0)

\* condTrue of layoutContainer / propagateFlexToIf / getIfFlexGrow / renderSubOp
condTrueWithBase(op, eb) ==
  (op.CondPtr /= NilPtr /\ Load(op.CondPtr))
    \/ (op.CondNode /= <<>> /\ evaluateWithBase(op.CondNode[1], eb))

\* The active branch of an If op: <<"then">>, <<"else">> or <<>>.
activeBranch(op, c) ==
  IF op.ThenTmpl /= <<>> /\ c THEN <<"then">>
  ELSE IF op.ElseTmpl /= <<>> /\ ~c THEN <<"else">>
  ELSE <<>>

\* The matching template of a Switch op: <<"case", k>>, <<"def">> or <<>>.
switchBranch(op) ==
  LET m == getMatchIndex(op.SwitchNode[1])
  IN IF m >= 0 /\ m < Len(op.SwitchCases)
       THEN (IF op.SwitchCases[m + 1] /= <<>> THEN <<"case", m + 1>> ELSE <<>>)
     ELSE IF op.SwitchDef /= <<>> THEN <<"def">>
     ELSE <<>>

RECURSIVE layout(_)
RECURSIVE layoutContainer(_, _)

\* tmpl.elemBase = t.elemBase; tmpl.distributeWidths(availW, t.elemBase); tmpl.layout(0)
layoutSub(sub, availW, eb) ==
  layout(distributeWidths([sub EXCEPT !.elemBase = eb], availW, eb))

\* The body of the layoutForEach loop after the iteration template has been
\* laid out for element k: its height is recorded and the cursor advances.
RECURSIVE layoutForEachLoop(_, _, _, _, _, _, _, _)

\* The loop body with a cursor that does not advance.
layoutForEachItemInPlace(t, i, availW, hdr, sub1, k, cursor, geoms) ==
  layoutForEachLoop(t, i, availW, hdr, sub1, k + 1, cursor,
                    Append(geoms, [W |-> availW, H |-> TemplateHeight(sub1), LocalX |-> 0,
                                   LocalY |-> cursor, ContentH |-> 0]))

layoutForEachItem(t, i, availW, hdr, sub1, k, cursor, geoms) ==
  layoutForEachLoop(t, i, availW, hdr, sub1, k + 1, I16(cursor + TemplateHeight(sub1)),
                    Append(geoms, [W |-> availW, H |-> TemplateHeight(sub1), LocalX |-> 0,
                                   LocalY |-> cursor, ContentH |-> 0]))

\* for i := 0; i < sliceHdr.Len; i++ { ... }; return cursor, availW
layoutForEachLoop(t, i, availW, hdr, sub, k, cursor, geoms) ==
  IF k >= hdr.Len
    THEN [t |-> [t EXCEPT !.ops[i + 1].IterTmpl = <<sub>>,
                          !.ops[i + 1].iterGeoms = geoms,
                          !.ops[i + 1].iterCap = Max(@, hdr.Len)],
          h |-> cursor, w |-> IF availW > 0 THEN availW ELSE 0]
  ELSE layoutForEachItem(t, i, availW, hdr,
                         layoutSub(sub, availW, PtrAdd(hdr.Data, k * opAt(t, i).ElemSize)),
                         k, cursor, geoms)

\* Returns the template with op i's body and iterGeoms updated, and (h, w).
layoutForEach(t, i, availW) ==
  IF opAt(t, i).IterTmpl = <<>> \/ opAt(t, i).SlicePtr = NilPtr
       \/ sliceHeader(opAt(t, i).SlicePtr).Len = 0
    THEN [t |-> t, h |-> 0, w |-> 0]
    ELSE layoutForEachLoop(t, i, availW, sliceHeader(opAt(t, i).SlicePtr),
                           opAt(t, i).IterTmpl[1], 0, 0, <<>>)

\* The branch of a control-flow op that layoutContainer lays out: <<>> when none.
branchOf(c, eb) ==
  IF c.Kind = "OpIf" THEN activeBranch(c, condTrueWithBase(c, eb)) ELSE switchBranch(c)

\* The template of branch br of op c.
branchTmpl(c, br) ==
  CASE br = <<"then">> -> c.ThenTmpl[1]
    [] br = <<"else">> -> c.ElseTmpl[1]
    [] br = <<"def">> -> c.SwitchDef[1]
    [] OTHER -> c.SwitchCases[br[2]][1]

\* The op with the template of branch br replaced by sub.
withBranch(c, br, sub) ==
  CASE br = <<"then">> -> [c EXCEPT !.ThenTmpl = <<sub>>]
    [] br = <<"else">> -> [c EXCEPT !.ElseTmpl = <<sub>>]
    [] br = <<"def">> -> [c EXCEPT !.SwitchDef = <<sub>>]
    [] OTHER -> [c EXCEPT !.SwitchCases[br[2]] = <<sub>>]

\* The laid-out branch sub becomes the geometry of the control-flow child i.
\* In a row the child takes the branch's first op's width and the cursor
\* advances by it; in a column the child takes availW and the branch's height.
adoptBranch(a, i, br, sub, isRow, x, y, availW) ==
  LET h == TemplateHeight(sub)
      w0 == IF Len(sub.geom) > 0 THEN sub.geom[1].W ELSE 0
      old == geomAt(a.t, i)
      g == [W |-> IF isRow THEN (IF Len(sub.geom) > 0 THEN w0 ELSE old.W) ELSE availW,
            H |-> h, LocalX |-> x, LocalY |-> y,
            ContentH |-> IF ~isRow /\ opAt(a.t, i).Kind = "OpIf" THEN h ELSE old.ContentH]
  IN [t |-> [a.t EXCEPT !.ops[i + 1] = withBranch(@, br, sub), !.geom[i + 1] = g],
      cursor |-> I16(a.cursor + (IF isRow THEN w0 ELSE h)),
      maxH |-> IF h > a.maxH THEN h ELSE a.maxH]

\* The result r of layoutForEach becomes the geometry of the ForEach child i.
adoptForEach(a, i, r, isRow, x, y, availW) ==
  [t |-> [r.t EXCEPT !.geom[i + 1].LocalX = x, !.geom[i + 1].LocalY = y,
                     !.geom[i + 1].H = r.h,
                     !.geom[i + 1].W = IF isRow THEN r.w ELSE availW],
   cursor |-> I16(a.cursor + (IF isRow THEN r.w ELSE r.h)),
   maxH |-> IF r.h > a.maxH THEN r.h ELSE a.maxH]

\* One child of a row (isRow) or column in layoutContainer; a is the loop
\* state [t, cursor, maxH].  The gap has been added to the cursor already.
layoutChild(a, i, isRow, offX, offY, availW) ==
  LET c == opAt(a.t, i)
      x == IF isRow THEN I16(offX + a.cursor) ELSE offX
      y == IF isRow THEN offY ELSE I16(offY + a.cursor)
      br == branchOf(c, a.t.elemBase)
  IN CASE c.Kind \in {"OpIf", "OpSwitch"} ->
            IF br /= <<>>
              THEN adoptBranch(a, i, br, layoutSub(branchTmpl(c, br), availW, a.t.elemBase),
                               isRow, x, y, availW)
            ELSE IF isRow THEN a
            ELSE IF c.Kind = "OpIf"
              THEN [a EXCEPT !.t.geom[i + 1].H = 0, !.t.geom[i + 1].ContentH = 0]
            ELSE [a EXCEPT !.t.geom[i + 1].H = 0]
       [] c.Kind = "OpForEach" ->
            adoptForEach(a, i, layoutForEach(a.t, i, availW), isRow, x, y, availW)
       [] OTHER ->
            [t |-> [a.t EXCEPT !.geom[i + 1].LocalX = x, !.geom[i + 1].LocalY = y],
             cursor |-> I16(a.cursor + (IF isRow THEN geomAt(a.t, i).W ELSE geomAt(a.t, i).H)),
             maxH |-> IF geomAt(a.t, i).H > a.maxH THEN geomAt(a.t, i).H ELSE a.maxH]

\* for i := op.ChildStart; i < op.ChildEnd; i++ { ... } of layoutContainer
RECURSIVE layoutChildren(_, _, _, _, _, _)
layoutChildren(a, kids, j, op, off, availW) ==
  IF j > Len(kids) THEN a
  ELSE layoutChildren(
         layoutChild(IF j > 1 /\ op.Gap > 0 THEN [a EXCEPT !.cursor = I16(@ + op.Gap)] ELSE a,
                     kids[j], op.IsRow, off, off, availW),
         kids, j + 1, op, off, availW)

\* The container's own height once its children are placed (r is the loop state).
containerHeight(r, op, idx) ==
  LET h == I16((IF op.IsRow THEN r.maxH ELSE r.cursor) + borderInset(op))
  IN [r.t EXCEPT !.geom[idx + 1].ContentH = h,
                 !.geom[idx + 1].H = IF op.Height > 0 THEN op.Height ELSE h]

layoutContainer(t, idx) ==
  containerHeight(
    layoutChildren([t |-> t, cursor |-> 0, maxH |-> 0], directChildren(t, idx), 1,
                   opAt(t, idx), contentOff(opAt(t, idx)),
                   I16(geomAt(t, idx).W - borderInset(opAt(t, idx)))),
    opAt(t, idx), idx)

\* SelectionList.ensureVisible: the window [offset, offset + MaxVisible) is
\* moved so that it holds the selected index.
ensureVisible(l) ==
  IF l.Selected = NilPtr \/ l.MaxVisible <= 0 THEN l
  ELSE IF Load(l.Selected) < l.offset THEN [l EXCEPT !.offset = Load(l.Selected)]
  ELSE IF Load(l.Selected) >= l.offset + l.MaxVisible
    THEN [l EXCEPT !.offset = Load(l.Selected) - l.MaxVisible + 1]
  ELSE l

\* case OpSelectionList of layout: len and the window are updated in the
\* caller's list, the height is the visible count, at least 1.
layoutSelectionList(t, idx) ==
  LET op == opAt(t, idx)
      n == sliceHeader(op.SlicePtr).Len
      lst == IF op.SelectionListPtr = <<>> THEN <<>>
             ELSE <<ensureVisible([op.SelectionListPtr[1] EXCEPT !.len = n])>>
      visibleCount == IF lst /= <<>> /\ lst[1].MaxVisible > 0 /\ n > lst[1].MaxVisible
                        THEN lst[1].MaxVisible ELSE n
  IN [t EXCEPT !.ops[idx + 1].SelectionListPtr = lst,
               !.geom[idx + 1].H = IF I16(visibleCount) = 0 THEN 1 ELSE I16(visibleCount)]

layoutOp(t, idx) ==
  LET k == opAt(t, idx).Kind
  IN CASE k \in {"OpText", "OpTextPtr", "OpTextOff"} -> [t EXCEPT !.geom[idx + 1].H = 1]
       [] k = "OpSelectionList" -> layoutSelectionList(t, idx)
       [] k = "OpLayout" -> layoutCustom(t, idx)
       [] k = "OpContainer" -> layoutContainer(t, idx)
       [] OTHER -> t

layout(t) ==
  LET order == bottomUp(t)
      RECURSIVE loop(_, _)
      loop(tt, j) == IF j > Len(order) THEN tt ELSE loop(layoutOp(tt, order[j]), j + 1)
  IN loop(t, 1)

-----------------------------------------------------------------------------
(* Phase 2b: column flex distribution *)

\* The active branch template of an If op, as a sequence of length 0 or 1.
activeTmpl(op, eb) ==
  LET br == activeBranch(op, condTrueWithBase(op, eb))
  IN IF br = <<"then">> THEN op.ThenTmpl
     ELSE IF br = <<"else">> THEN op.ElseTmpl
     ELSE <<>>

getIfFlexGrow(t, op) ==
  LET a == activeTmpl(op, t.elemBase)
  IN IF a = <<>> THEN 0
     ELSE IF Len(a[1].ops) = 0 THEN 0
     ELSE IF a[1].ops[1].Kind = "OpContainer" /\ a[1].ops[1].FlexGrow > 0
       THEN a[1].ops[1].FlexGrow
     ELSE 0

\* availH of distributeFlexInCol
flexAvailH(t, idx, rootH) ==
  LET op == opAt(t, idx)
      base == IF op.FlexGrow > 0 /\ geomAt(t, idx).H > 0
                THEN I16(geomAt(t, idx).H - borderInset(op))
              ELSE IF op.Parent >= 0
                THEN I16(geomAt(t, op.Parent).H - borderInset(opAt(t, op.Parent)))
              ELSE rootH
  IN IF op.Height > 0 THEN I16(op.Height - borderInset(op)) ELSE base

\* The first loop of distributeFlexInCol: usedH (before gaps), totalFlex, the
\* flex children and their flex values.
flexCollect(t, idx) ==
  LET kids == directChildren(t, idx)
      RECURSIVE loop(_, _)
      loop(a, j) ==
        IF j > Len(kids) THEN a
        ELSE LET i == kids[j]
                 c == opAt(t, i)
                 g == IF c.Kind = "OpContainer" /\ c.FlexGrow > 0 THEN c.FlexGrow
                      ELSE IF c.Kind = "OpIf" THEN getIfFlexGrow(t, c)
                      ELSE 0
             IN IF g > 0
                  THEN loop([usedH |-> I16(a.usedH + geomAt(t, i).ContentH),
                             totalFlex |-> a.totalFlex + g,
                             flexChildren |-> Append(a.flexChildren, i),
                             flexGrowValues |-> Append(a.flexGrowValues, g)], j + 1)
                  ELSE loop([a EXCEPT !.usedH = I16(@ + geomAt(t, i).H)], j + 1)
  IN loop([usedH |-> 0, totalFlex |-> 0, flexChildren |-> <<>>,
           flexGrowValues |-> <<>>], 1)

RECURSIVE distributeFlexGrow(_, _)

\* The op with the template of its active branch br replaced by grown.
flexBranch(t, i, br, grown) ==
  IF br = <<"then">> THEN [t EXCEPT !.ops[i + 1].ThenTmpl = <<grown>>]
  ELSE [t EXCEPT !.ops[i + 1].ElseTmpl = <<grown>>]

\* a is the active branch template (length 0 or 1) of the If op i.
propagateFlexToBranch(t, i, newH, br, a) ==
  IF a = <<>> THEN t
  ELSE IF Len(a[1].ops) = 0 THEN t
  ELSE IF a[1].ops[1].Kind = "OpContainer" /\ a[1].ops[1].FlexGrow > 0
    THEN flexBranch(t, i, br, distributeFlexGrow([a[1] EXCEPT !.geom[1].H = newH], newH))
  ELSE t

propagateFlexToIf(t, i, newH) ==
  propagateFlexToBranch(t, i, newH,
                        activeBranch(opAt(t, i), condTrueWithBase(opAt(t, i), t.elemBase)),
                        activeTmpl(opAt(t, i), t.elemBase))

\* usedH of distributeFlexInCol after the gaps are added.
flexUsedH(op, childCount, usedH) ==
  IF childCount > 1 /\ op.Gap > 0 THEN I16(usedH + I16(op.Gap * (childCount - 1)))
  ELSE usedH

\* for i, childIdx := range flexChildren { geom.H = geom.ContentH + extraH }
RECURSIVE flexGrowLoop(_, _, _, _, _)
flexGrowShare(tt, c, remaining, j, distributed, extraH) ==
  flexGrowLoop([tt EXCEPT !.geom[c.flexChildren[j] + 1].H =
                            I16(geomAt(tt, c.flexChildren[j]).ContentH + extraH)],
               c, remaining, j + 1, I16(distributed + extraH))

flexGrowLoop(tt, c, remaining, j, distributed) ==
  IF j > Len(c.flexChildren) THEN tt
  ELSE flexGrowShare(tt, c, remaining, j, distributed,
                     IF j = Len(c.flexChildren) THEN I16(remaining - distributed)
                     ELSE flexShareOf(remaining, c.flexGrowValues[j], c.totalFlex))

\* The repositioning sweep: every direct child gets its LocalY again.
RECURSIVE flexSweep(_, _, _, _, _)
flexSweepAt(tt, op, kids, j, cur) ==
  flexSweep([tt EXCEPT !.geom[kids[j] + 1].LocalY = I16(contentOff(op) + cur)],
            op, kids, j + 1, I16(cur + geomAt(tt, kids[j]).H))

flexSweep(tt, op, kids, j, cursor) ==
  IF j > Len(kids) THEN tt
  ELSE flexSweepAt(tt, op, kids, j,
                   IF j > 1 /\ op.Gap > 0 THEN I16(cursor + op.Gap) ELSE cursor)

\* for i, childIdx := range flexChildren { if OpIf { propagateFlexToIf } }
RECURSIVE flexPropagate(_, _, _)
flexPropagate(tt, flexChildren, j) ==
  IF j > Len(flexChildren) THEN tt
  ELSE flexPropagate(IF opAt(tt, flexChildren[j]).Kind = "OpIf"
                       THEN propagateFlexToIf(tt, flexChildren[j],
                                              geomAt(tt, flexChildren[j]).H)
                       ELSE tt,
                     flexChildren, j + 1)

\* The second half of distributeFlexInCol, once the first loop's result c, the
\* available height and the remaining height are known.
flexDistribute(t, idx, op, kids, c, availH, remaining) ==
  IF remaining > 0 /\ c.totalFlex > 0
    THEN [flexPropagate(flexSweep(flexGrowLoop(t, c, remaining, 1, 0), op, kids, 1, 0),
                        c.flexChildren, 1)
            EXCEPT !.geom[idx + 1].H = I16(availH + borderInset(op))]
    ELSE t

flexWith(t, idx, op, kids, c, availH) ==
  flexDistribute(t, idx, op, kids, c, availH,
                 I16(availH - flexUsedH(op, Len(kids), c.usedH)))

distributeFlexInCol(t, idx, rootH) ==
  flexWith(t, idx, opAt(t, idx), directChildren(t, idx), flexCollect(t, idx),
           flexAvailH(t, idx, rootH))

distributeFlexGrow(t, rootH) ==
  LET order == topDown(t)
      RECURSIVE loop(_, _)
      loop(tt, j) ==
        IF j > Len(order) THEN tt
        ELSE loop(IF opAt(tt, order[j]).Kind = "OpContainer" /\ ~opAt(tt, order[j]).IsRow
                    THEN distributeFlexInCol(tt, order[j], rootH) ELSE tt,
                  j + 1)
  IN loop(t, 1)

-----------------------------------------------------------------------------
(* Phase 3: render *)

\* The calls the engine makes on the Buffer.
WriteStringFast(x, y, str, maxW) == [c |-> "str", x |-> x, y |-> y, s |-> str, w |-> maxW, h |-> 1]
DrawBorder(x, y, w, h) == [c |-> "border", x |-> x, y |-> y, s |-> <<>>, w |-> w, h |-> h]

\* condTrue of the main render walk: evaluate(), without an element base.
condTrueRender(op) ==
  (op.CondPtr /= NilPtr /\ Load(op.CondPtr))
    \/ (op.CondNode /= <<>> /\ evaluate(op.CondNode[1]))

\* The renderSubTemplate calls of an OpForEach at (absX, absY): one per index
\* i < sliceHdr.Len && i < len(op.iterGeoms).
forEachCalls(op, absX, absY) ==
  LET hdr == sliceHeader(op.SlicePtr)
      n == IF op.IterTmpl = <<>> \/ op.SlicePtr = NilPtr THEN 0
           ELSE Min(hdr.Len, Len(op.iterGeoms))
  IN [k \in 1..n |->
        [i |-> k - 1,
         x |-> I16(absX + op.iterGeoms[k].LocalX),
         y |-> I16(absY + op.iterGeoms[k].LocalY),
         w |-> op.iterGeoms[k].W,
         elem |-> PtrAdd(hdr.Data, (k - 1) * op.ElemSize)]]

\* The writes of one visible row i of a selection list at line y.
renderSelectionRow(op, i, selectedIdx, absX, y, maxW) ==
  LET markerText == IF i = selectedIdx THEN op.Marker ELSE Chars(" ", op.MarkerWidth)
      contentW == maxW - op.MarkerWidth
      contentX == absX + op.MarkerWidth
      elemPtr == PtrAdd(sliceHeader(op.SlicePtr).Data, i * op.ElemSize)
      iterOp == op.IterTmpl[1].ops[1]
  IN <<WriteStringFast(absX, y, markerText, maxW)>>
       \o (IF op.IterTmpl /= <<>> /\ Len(op.IterTmpl[1].ops) > 0
             THEN CASE iterOp.Kind = "OpText" ->
                         <<WriteStringFast(contentX, y, iterOp.StaticStr, contentW)>>
                    [] iterOp.Kind = "OpTextPtr" ->
                         <<WriteStringFast(contentX, y, Load(iterOp.StrPtr), contentW)>>
                    [] iterOp.Kind = "OpTextOff" ->
                         <<WriteStringFast(contentX, y, Load(PtrAdd(elemPtr, iterOp.StrOff)),
                                           contentW)>>
                    [] OTHER -> <<>>
             ELSE <<>>)

RECURSIVE renderSelectionRows(_, _, _, _, _, _, _)
renderSelectionRows(op, i, endIdx, selectedIdx, absX, y, maxW) ==
  IF i >= endIdx THEN <<>>
  ELSE renderSelectionRow(op, i, selectedIdx, absX, y, maxW)
         \o renderSelectionRows(op, i + 1, endIdx, selectedIdx, absX, y + 1, maxW)

\* renderSelectionList with the window always starting at the first item.
renderSelectionListFromTop(op, absX, absY, maxW) ==
  LET n == sliceHeader(op.SlicePtr).Len
      selectedIdx == IF op.SelectedPtr /= NilPtr THEN Load(op.SelectedPtr) ELSE -1
      windowed == op.SelectionListPtr /= <<>> /\ op.SelectionListPtr[1].MaxVisible > 0
      endIdx == IF windowed THEN Min(op.SelectionListPtr[1].MaxVisible, n) ELSE n
  IN IF n = 0 THEN <<>>
     ELSE renderSelectionRows(op, 0, endIdx, selectedIdx, absX, absY, maxW)

renderSelectionList(op, absX, absY, maxW) ==
  LET n == sliceHeader(op.SlicePtr).Len
      selectedIdx == IF op.SelectedPtr /= NilPtr THEN Load(op.SelectedPtr) ELSE -1
      windowed == op.SelectionListPtr /= <<>> /\ op.SelectionListPtr[1].MaxVisible > 0
      startIdx == IF windowed THEN op.SelectionListPtr[1].offset ELSE 0
      endIdx == IF windowed
                  THEN Min(startIdx + op.SelectionListPtr[1].MaxVisible, n) ELSE n
  IN IF n = 0 THEN <<>>
     ELSE renderSelectionRows(op, startIdx, endIdx, selectedIdx, absX, absY, maxW)

RECURSIVE renderOp(_, _, _, _, _)
RECURSIVE renderSubOp(_, _, _, _, _, _)

renderSubTemplate(sub, gx, gy, maxW, eb) ==
  LET RECURSIVE roots(_, _)
      roots(i, acc) ==
        IF i >= Len(sub.ops) THEN acc
        ELSE roots(i + 1, IF opAt(sub, i).Parent = -1
                            THEN acc \o renderSubOp(sub, i, gx, gy, maxW, eb) ELSE acc)
  IN roots(0, <<>>)

renderItems(op, absX, absY) ==
  LET calls == forEachCalls(op, absX, absY)
      RECURSIVE each(_, _)
      each(k, acc) ==
        IF k > Len(calls) THEN acc
        ELSE each(k + 1, acc \o renderSubTemplate(op.IterTmpl[1], calls[k].x, calls[k].y,
                                                   calls[k].w, calls[k].elem))
  IN each(1, <<>>)

render(t, gx, gy, maxW) == renderOp(t, 0, gx, gy, maxW)

renderOp(t, idx, gx, gy, maxW) ==
  IF idx < 0 \/ idx >= Len(t.ops) THEN <<>>
  ELSE
  LET op == opAt(t, idx)
      g == geomAt(t, idx)
      absX == I16(gx + g.LocalX)
      absY == I16(gy + g.LocalY)
      kids == directChildren(t, idx)
      RECURSIVE children(_, _)
      children(j, acc) ==
        IF j > Len(kids) THEN acc
        ELSE children(j + 1, acc \o renderOp(t, kids[j], absX, absY, g.W))
  IN CASE op.Kind = "OpText" -> <<WriteStringFast(absX, absY, op.StaticStr, maxW)>>
       [] op.Kind = "OpTextPtr" -> <<WriteStringFast(absX, absY, Load(op.StrPtr), maxW)>>
       [] op.Kind = "OpTextOff" -> <<>>
       [] op.Kind = "OpSelectionList" -> renderSelectionList(op, absX, absY, maxW)
       [] op.Kind = "OpLayout" -> children(1, <<>>)
       [] op.Kind = "OpContainer" ->
            children(1, IF op.Border THEN <<DrawBorder(absX, absY, g.W, g.H)>> ELSE <<>>)
       [] op.Kind = "OpIf" ->
            LET br == activeBranch(op, condTrueRender(op))
            IN IF br = <<"then">> THEN render(op.ThenTmpl[1], absX, absY, g.W)
               ELSE IF br = <<"else">> THEN render(op.ElseTmpl[1], absX, absY, g.W)
               ELSE <<>>
       [] op.Kind = "OpForEach" -> renderItems(op, absX, absY)
       [] op.Kind = "OpSwitch" ->
            LET br == switchBranch(op)
            IN IF br = <<>> THEN <<>>
               ELSE IF br = <<"def">> THEN render(op.SwitchDef[1], absX, absY, g.W)
               ELSE render(op.SwitchCases[br[2]][1], absX, absY, g.W)
       [] OTHER -> <<>>

renderSubOp(sub, idx, gx, gy, maxW, eb) ==
  LET op == opAt(sub, idx)
      g == geomAt(sub, idx)
      absX == I16(gx + g.LocalX)
      absY == I16(gy + g.LocalY)
      kids == directChildren(sub, idx)
      RECURSIVE children(_, _)
      children(j, acc) ==
        IF j > Len(kids) THEN acc
        ELSE children(j + 1, acc \o renderSubOp(sub, kids[j], absX, absY, g.W, eb))
  IN CASE op.Kind = "OpText" -> <<WriteStringFast(absX, absY, op.StaticStr, maxW)>>
       [] op.Kind = "OpTextPtr" -> <<WriteStringFast(absX, absY, Load(op.StrPtr), maxW)>>
       [] op.Kind = "OpTextOff" ->
            <<WriteStringFast(absX, absY, Load(PtrAdd(eb, op.StrOff)), maxW)>>
       [] op.Kind = "OpSelectionList" -> renderSelectionList(op, absX, absY, maxW)
       [] op.Kind = "OpLayout" -> children(1, <<>>)
       [] op.Kind = "OpContainer" ->
            children(1, IF op.Border THEN <<DrawBorder(absX, absY, g.W, g.H)>> ELSE <<>>)
       [] op.Kind = "OpIf" ->
            LET br == activeBranch(op, condTrueWithBase(op, eb))
            IN IF br = <<"then">>
                 THEN renderSubTemplate(op.ThenTmpl[1], absX, absY, g.W, eb)
               ELSE IF br = <<"else">>
                 THEN renderSubTemplate(op.ElseTmpl[1], absX, absY, g.W, eb)
               ELSE <<>>
       [] op.Kind = "OpForEach" -> renderItems(op, absX, absY)
       [] op.Kind = "OpSwitch" ->
            LET br == switchBranch(op)
            IN IF br = <<>> THEN <<>>
               ELSE IF br = <<"def">>
                 THEN renderSubTemplate(op.SwitchDef[1], absX, absY, g.W, eb)
               ELSE renderSubTemplate(op.SwitchCases[br[2]][1], absX, absY, g.W, eb)
       [] OTHER -> <<>>

\* The cell contents a cleared buffer of the given size holds after the
\* commands: a string writes min(len, maxW) cells from (x, y), a border the
\* outline of its rectangle; cells outside the buffer are dropped.
Cells(cmds, bw, bh) ==
  LET paint(cells, cmd) ==
        [pt \in (0..(bw - 1)) \X (0..(bh - 1)) |->
           IF cmd.c = "str"
             THEN (IF pt[2] = cmd.y /\ pt[1] >= cmd.x
                      /\ pt[1] - cmd.x < Min(Len(cmd.s), cmd.w)
                     THEN cmd.s[pt[1] - cmd.x + 1] ELSE cells[pt])
           ELSE (IF pt[1] >= cmd.x /\ pt[1] < cmd.x + cmd.w
                    /\ pt[2] >= cmd.y /\ pt[2] < cmd.y + cmd.h
                    /\ (pt[1] = cmd.x \/ pt[1] = cmd.x + cmd.w - 1
                         \/ pt[2] = cmd.y \/ pt[2] = cmd.y + cmd.h - 1)
                   THEN "#" ELSE cells[pt])]
      RECURSIVE run(_, _)
      run(cells, j) == IF j > Len(cmds) THEN cells ELSE run(paint(cells, cmds[j]), j + 1)
  IN run([pt \in (0..(bw - 1)) \X (0..(bh - 1)) |-> " "], 1)

-----------------------------------------------------------------------------
(* Execute as an operator: the four phases in order *)

ExecuteGeom(t, screenW, screenH) ==
  distributeFlexGrow(layout(distributeWidths(t, screenW, NilPtr)), screenH)

ExecuteLog(t, screenW, screenH) == render(ExecuteGeom(t, screenW, screenH), 0, 0, screenW)

-----------------------------------------------------------------------------
(* BufferPool: two buffers, the render loop that swaps them and the goroutine
   that clears the one swapped out. Buffers are 0 and 1; cells[i + 1] says
   that buffer i holds a cell drawn by a frame and not cleared since; nil is
   -1; mu is the goroutine that holds the mutex. at and cat are the places of
   the render loop and of the clearer in their code. *)

MaxFrames == 5

\* NewBufferPool: both buffers new, the clearer goroutine started.
NewBufferPool ==
  [current |-> 0, dirty |-> <<FALSE, FALSE>>, cells |-> <<FALSE, FALSE>>,
   mu |-> "free", pendingClear |-> -1, pendingIdx |-> 0, clearerActive |-> TRUE,
   at |-> "frame", old |-> 0, next |-> 0, frames |-> 0,
   cat |-> "lock", buf |-> -1, idx |-> 0]

\* Run: buf := p.Current(); frame(buf), the callback drawing into the buffer;
\* then Swap up to its store of dirty[old].
Frame ==
  /\ pool.at = "frame" /\ pool.frames < MaxFrames
  /\ pool' = [pool EXCEPT !.cells[pool.current + 1] = TRUE,
                          !.frames = @ + 1,
                          !.old = pool.current, !.next = 1 - pool.current,
                          !.dirty[pool.current + 1] = TRUE,
                          !.at = "check"]
  /\ UNCHANGED <<engine, evloop>>

\* Swap, from its first load of dirty[next] to its return, one access of the
\* shared state at a time.
Swap ==
  /\ \/ /\ pool.at = "check"                   \* if p.dirty[next].Load()
        /\ pool' = [pool EXCEPT !.at = IF pool.dirty[pool.next + 1]
                                         THEN "lock" ELSE "store"]
     \/ /\ pool.at = "lock" /\ pool.mu = "free"  \* p.mu.Lock(); second check
        /\ pool' = [pool EXCEPT
                      !.mu = "main",
                      !.at = IF ~pool.dirty[pool.next + 1] THEN "unlock"
                             ELSE IF pool.pendingClear = pool.next THEN "spin"
                             ELSE "sync"]
     \/ /\ pool.at = "spin"                    \* for dirty[next] && clearerActive
        /\ pool' = IF pool.dirty[pool.next + 1] /\ pool.clearerActive
                     THEN [pool EXCEPT !.mu = "free", !.at = "relock"]
                     ELSE [pool EXCEPT !.at = "sync"]
     \/ /\ pool.at = "relock" /\ pool.mu = "free"
        /\ pool' = [pool EXCEPT !.mu = "main",
                                !.at = IF pool.pendingClear /= pool.next
                                         THEN "sync" ELSE "spin"]
     \/ /\ pool.at = "sync"                    \* if p.dirty[next].Load()
        /\ pool' = IF pool.dirty[pool.next + 1]
                     THEN [pool EXCEPT !.mu = "free", !.at = "clear"]
                     ELSE [pool EXCEPT !.at = "unlock"]
     \/ /\ pool.at = "clear"                   \* p.buffers[next].ClearDirty()
        /\ pool' = [pool EXCEPT !.cells[pool.next + 1] = FALSE, !.at = "clean"]
     \/ /\ pool.at = "clean"                   \* p.dirty[next].Store(false)
        /\ pool' = [pool EXCEPT !.dirty[pool.next + 1] = FALSE, !.at = "lockagain"]
     \/ /\ pool.at = "lockagain" /\ pool.mu = "free"
        /\ pool' = [pool EXCEPT !.mu = "main", !.at = "unlock"]
     \/ /\ pool.at = "unlock"
        /\ pool' = [pool EXCEPT !.mu = "free", !.at = "store"]
     \/ /\ pool.at = "store"                   \* p.current.Store(next)
        /\ pool' = [pool EXCEPT !.current = pool.next, !.at = "queue"]
     \/ /\ pool.at = "queue" /\ pool.mu = "free"  \* pendingClear = oldBuf; Signal
        /\ pool' = [pool EXCEPT !.pendingClear = pool.old, !.pendingIdx = pool.old,
                                !.cat = IF pool.cat = "wait" THEN "lock" ELSE @,
                                !.at = "return"]
     \/ /\ pool.at = "return"                  \* return p.buffers[next]
        /\ pool' = [pool EXCEPT !.at = "frame"]
  /\ UNCHANGED <<engine, evloop>>

\* The goroutine of startClearer.
Clearer ==
  /\ \/ /\ pool.cat = "lock" /\ pool.mu = "free"
        /\ pool' = [pool EXCEPT !.mu = "clearer", !.cat = "take"]
     \/ /\ pool.cat = "take"
        /\ pool' = IF ~pool.clearerActive                \* return, deferred Unlock
                     THEN [pool EXCEPT !.mu = "free", !.cat = "exit"]
                   ELSE IF pool.pendingClear = -1
                     THEN [pool EXCEPT !.mu = "free", !.cat = "wait"]   \* p.cond.Wait()
                     ELSE [pool EXCEPT !.buf = pool.pendingClear, !.idx = pool.pendingIdx,
                                       !.pendingClear = -1, !.mu = "free",
                                       !.cat = "clear"]
     \/ /\ pool.cat = "clear"                  \* buf.ClearDirty()
        /\ pool' = [pool EXCEPT !.cells[pool.buf + 1] = FALSE, !.cat = "clean"]
     \/ /\ pool.cat = "clean"                  \* p.dirty[idx].Store(false)
        /\ pool' = [pool EXCEPT !.dirty[pool.idx + 1] = FALSE, !.cat = "lock"]
  /\ UNCHANGED <<engine, evloop>>

\* Stop that does not signal the condition variable.
PoolStopNoSignal ==
  /\ pool.mu = "free" /\ pool.clearerActive
  /\ pool' = [pool EXCEPT !.clearerActive = FALSE]
  /\ UNCHANGED <<engine, evloop>>

\* BufferPool.Stop: under the mutex, clearerActive = false and a Signal that
\* wakes the clearer if it waits.
PoolStop ==
  /\ pool.mu = "free" /\ pool.clearerActive
  /\ pool' = [pool EXCEPT !.clearerActive = FALSE,
                          !.cat = IF pool.cat = "wait" THEN "lock" ELSE @]
  /\ UNCHANGED <<engine, evloop>>

-----------------------------------------------------------------------------
(* Loop: the goroutine that calls Run (at is its place in the code), the
   goroutines that call CallLater, RequestRender and Stop, the reader of the
   input and the timer of RunFor. Functions passed to CallLater are numbered
   in the order they are appended. frameChan is the number of requests in the
   channel of capacity 1; stopChan is closed or not. *)

MaxCalls == 2      \* calls of CallLater
NumCallers == 2    \* goroutines that are inside CallLater at one time
MaxEvents == 1     \* input and resize events waiting in their channels

\* NewLoop: nothing queued, no request, stopChan open, not running.
NewLoop ==
  [at |-> "new", err |-> FALSE, running |-> FALSE, stopChan |-> "open",
   frameChan |-> 0, events |-> 0,
   callLaterQueue |-> <<>>, queue |-> <<>>, done |-> <<>>, calls |-> 0,
   callers |-> 0,
   timer |-> "off", again |-> FALSE, shed |-> FALSE, stopCalled |-> FALSE,
   mark |-> 0, onRender |-> FALSE, cleared |-> FALSE, panic |-> FALSE]

\* CallLater without its call of requestFrame.
CallLaterNoRequest ==
  /\ evloop.calls < MaxCalls
  /\ evloop' = [evloop EXCEPT !.callLaterQueue = Append(@, evloop.calls + 1),
                              !.calls = @ + 1]
  /\ UNCHANGED <<engine, pool>>

\* CallLater up to its unlock: the function is appended under callLaterMu.
CallLater ==
  /\ evloop.calls < MaxCalls
  /\ evloop.callers < NumCallers
  /\ evloop' = [evloop EXCEPT !.callLaterQueue = Append(@, evloop.calls + 1),
                              !.calls = @ + 1,
                              !.callers = @ + 1]
  /\ UNCHANGED <<engine, pool>>

\* requestFrame, at the end of CallLater or from RequestRender: a send that
\* does nothing when the channel is full.
RequestFrame ==
  /\ \E inCallLater \in BOOLEAN :
       /\ inCallLater => evloop.callers > 0
       /\ evloop' = [evloop EXCEPT !.frameChan = 1,
                                   !.shed = @ \/ evloop.frameChan = 1,
                                   !.callers = IF inCallLater THEN @ - 1 ELSE @]
  /\ UNCHANGED <<engine, pool>>

\* Run up to EnterRawMode; and a second call of Run while the loop runs.
Run ==
  /\ \/ /\ evloop.at = "new"
        /\ evloop' = [evloop EXCEPT !.at = "lock"]
     \/ /\ evloop.at = "lock"
        /\ evloop' = IF evloop.running THEN [evloop EXCEPT !.at = "returned"]
                     ELSE [evloop EXCEPT !.running = TRUE, !.at = "raw"]
     \/ /\ evloop.at \notin {"new", "lock", "returned"}
        /\ evloop.running /\ ~evloop.again
        /\ evloop' = [evloop EXCEPT !.again = TRUE]    \* if l.running: return nil
  /\ UNCHANGED <<engine, pool>>

\* RunFor: the timer goroutine is started, then Run is called.
RunFor ==
  /\ evloop.at = "new"
  /\ evloop' = [evloop EXCEPT !.timer = "sleep", !.at = "lock"]
  /\ UNCHANGED <<engine, pool>>

\* EnterRawMode, which may fail; then go l.readInput() and the first frame.
RawMode ==
  /\ evloop.at = "raw"
  /\ \E ok \in BOOLEAN :
       evloop' = IF ok THEN [evloop EXCEPT !.at = "frame", !.mark = evloop.calls]
                 ELSE [evloop EXCEPT !.at = "returned", !.err = TRUE]
  /\ UNCHANGED <<engine, pool>>

\* OnRender: the program sets the render callback before it calls Run.
OnRender ==
  /\ evloop.at = "new" /\ ~evloop.onRender
  /\ evloop' = [evloop EXCEPT !.onRender = TRUE]
  /\ UNCHANGED <<engine, pool>>

\* A frame that renders before it looks at the queue.
ProcessFrameRenderFirst ==
  /\ \/ /\ evloop.at \in {"drain", "frame"}
        /\ evloop' = [evloop EXCEPT !.at = "clear"]
     \/ /\ evloop.at = "clear"
        /\ evloop' = [evloop EXCEPT !.cleared = TRUE, !.at = "render"]
     \/ /\ evloop.at = "render"
        /\ evloop' = [evloop EXCEPT !.cleared = FALSE, !.at = "exec",
                                    !.queue = evloop.callLaterQueue,
                                    !.callLaterQueue = <<>>]
     \/ /\ evloop.at = "exec"
        /\ evloop' = IF evloop.queue = <<>> THEN [evloop EXCEPT !.at = "flush"]
                     ELSE [evloop EXCEPT !.done = Append(@, Head(evloop.queue)),
                                         !.queue = Tail(@)]
     \/ /\ evloop.at = "flush"
        /\ evloop' = [evloop EXCEPT !.at = "select"]
  /\ UNCHANGED <<engine, pool>>

\* processFrameNow and processFrame: the request is drained, the queue is
\* swapped out and its functions run until it is found empty (a function may
\* call CallLater itself), then the screen is cleared and the render callback
\* runs if there is one, then the flush.
ProcessFrame ==
  /\ \/ /\ evloop.at = "drain"
        /\ evloop' = [evloop EXCEPT !.frameChan = 0,
                                    !.shed = @ \/ evloop.frameChan = 1,
                                    !.mark = evloop.calls,
                                    !.at = "frame"]
     \/ /\ evloop.at = "frame"
        /\ evloop' = IF evloop.callLaterQueue = <<>>
                       THEN [evloop EXCEPT
                               !.at = IF evloop.onRender THEN "clear" ELSE "flush"]
                       ELSE [evloop EXCEPT !.queue = evloop.callLaterQueue,
                                           !.callLaterQueue = <<>>,
                                           !.at = "exec"]
     \/ /\ evloop.at = "exec"
        /\ \E more \in BOOLEAN :
             evloop' =
               IF evloop.queue = <<>> THEN [evloop EXCEPT !.at = "frame"]
               ELSE IF more /\ evloop.calls < MaxCalls
                 THEN [evloop EXCEPT             \* fn() calls l.CallLater
                         !.done = Append(@, Head(evloop.queue)),
                         !.queue = Tail(@),
                         !.callLaterQueue = Append(@, evloop.calls + 1),
                         !.calls = @ + 1,
                         !.frameChan = 1,
                         !.shed = @ \/ evloop.frameChan = 1]
                 ELSE [evloop EXCEPT !.done = Append(@, Head(evloop.queue)),
                                     !.queue = Tail(@)]
     \/ /\ evloop.at = "clear"                  \* l.screen.Clear()
        /\ evloop' = [evloop EXCEPT !.cleared = TRUE, !.at = "render"]
     \/ /\ evloop.at = "render"                 \* l.onRender(l.screen.Buffer())
        /\ evloop' = [evloop EXCEPT !.cleared = FALSE, !.at = "flush"]
     \/ /\ evloop.at = "flush"                  \* l.screen.Flush()
        /\ evloop' = [evloop EXCEPT !.at = "select"]
  /\ UNCHANGED <<engine, pool>>

\* select: case input := <-l.inputChan, case size := <-l.screen.ResizeChan()
SelectInput ==
  /\ evloop.at = "select" /\ evloop.events > 0
  /\ evloop' = [evloop EXCEPT !.events = @ - 1, !.at = "drain"]
  /\ UNCHANGED <<engine, pool>>

\* select: case <-l.frameChan
SelectFrame ==
  /\ evloop.at = "select" /\ evloop.frameChan = 1
  /\ evloop' = [evloop EXCEPT !.frameChan = 0, !.at = "drain"]
  /\ UNCHANGED <<engine, pool>>

\* The select leaving the loop whether stopChan is closed or not.
SelectStopAnyway ==
  /\ evloop.at = "select"
  /\ evloop' = [evloop EXCEPT !.at = "returned"]
  /\ UNCHANGED <<engine, pool>>

\* select: case <-l.stopChan
SelectStop ==
  /\ evloop.at = "select" /\ evloop.stopChan = "closed"
  /\ evloop' = [evloop EXCEPT !.at = "returned"]
  /\ UNCHANGED <<engine, pool>>

\* readInput and the resize signal: an event is put in its channel.
ReadInput ==
  /\ evloop.at \in {"drain", "frame", "exec", "clear", "render", "flush", "select"}
  /\ evloop.events < MaxEvents
  /\ evloop' = [evloop EXCEPT !.events = @ + 1]
  /\ UNCHANGED <<engine, pool>>

\* Stop, called by the program or by the timer goroutine of RunFor. The
\* close of a closed channel panics, which ends the program.
Stop ==
  /\ ~evloop.panic
  /\ \E timed \in BOOLEAN :
       /\ timed => evloop.timer = "sleep"
       /\ evloop' = [evloop EXCEPT
                       !.stopCalled = TRUE,
                       !.running = FALSE,
                       !.stopChan = IF evloop.running THEN "closed" ELSE @,
                       !.panic = evloop.running /\ evloop.stopChan = "closed",
                       !.at = IF evloop.running /\ evloop.stopChan = "closed"
                                THEN "panic" ELSE @,
                       !.timer = IF timed THEN "done" ELSE @]
  /\ UNCHANGED <<engine, pool>>

\* Run is called again after an earlier call of Run has returned.
RunAgain ==
  /\ evloop.at = "returned"
  /\ evloop' = [evloop EXCEPT !.at = "lock", !.err = FALSE]
  /\ UNCHANGED <<engine, pool>>

-----------------------------------------------------------------------------
(* The declarations the caller builds *)

S(c, n) == Chars(c, n)
ElemName == PtrAdd(ProbeBase, FieldOff("Name"))   \* &elem.Name in a render function
ElemN == PtrAdd(ProbeBase, FieldOff("N"))         \* &elem.N

ItemText == TextPtr(ElemName)
Each(body) == ForEach(AddrItems, body)
IfVal(cop, cv, then, els) == Cond(AddrVal, cop, cv, then, els)
ValSwitch == Switch(AddrVal, <<0, 1>>, <<Text(S("P", 1)), Col(<<Text(S("Q", 2)), Text(S("R", 1))>>)>>, NilNode)

Decls ==
  << \* 1-5: the scenarios of the documentation
     Col(<<Text(S("A", 3)), Text(S("B", 3))>>),
     Gap(Row(<<Text(S("A", 2)), Text(S("B", 2))>>), 2),
     Col(<<IfVal("Eq", 0, Text(S("X", 1)), Text(S("Y", 1)))>>),
     Row(<<Grow(Col(<<>>), 1), Grow(Col(<<>>), 2)>>),
     Col(<<Grow(Row(<<>>), 1), Grow(Row(<<>>), 1)>>),
     \* 6-11: iteration at the root, in a column, a row, a Box, a branch
     Each(ItemText),
     Col(<<Text(S("H", 2)), Each(ItemText), Text(S("F", 1))>>),
     Row(<<Each(ItemText), Text(S("T", 1))>>),
     Box("vstack", <<Each(ItemText)>>),
     Col(<<IfNode(AddrFlag, Each(ItemText))>>),
     Col(<<IfNode(AddrFlag, Col(<<Each(ItemText)>>))>>),
     \* 12-13: borders, gaps, row flex
     Border(Col(<<Row(<<Text(S("A", 1)), Text(S("B", 1))>>), Text(S("C", 1))>>)),
     Border(Gap(Row(<<Text(S("A", 3)), Grow(Col(<<Text(S("B", 1))>>), 1),
                      Border(Grow(Col(<<Text(S("C", 1))>>), 2))>>), 1)),
     \* 14-15: pointer-bound text, a flex sibling that may get no room
     Col(<<TextPtr(AddrTxt), Text(S("A", 1))>>),
     Width(Row(<<TextPtr(AddrTxt), Border(Grow(Col(<<Text(S("A", 2))>>), 1)),
                 Text(S("Z", 1))>>), 3),
     \* 16-21: control-flow children that may have no content
     Gap(Col(<<Text(S("A", 1)), IfNode(AddrFlag, Text(S("B", 1))), Text(S("C", 1))>>), 1),
     Gap(Row(<<Text(S("A", 1)), IfNode(AddrFlag, Text(S("B", 3))), Text(S("C", 1))>>), 1),
     Gap(Col(<<Text(S("A", 1)), Each(ItemText), Text(S("C", 1))>>), 1),
     Gap(Row(<<Text(S("A", 1)), Each(ItemText), Text(S("C", 1))>>), 1),
     Gap(Col(<<Text(S("A", 1)), ValSwitch, Text(S("C", 1))>>), 1),
     Gap(Row(<<Text(S("A", 1)), ValSwitch, Text(S("C", 1))>>), 1),
     \* 22-24: the six comparators, then/else, a conditional at the root
     Col(<<IfVal("Eq", 1, Text(S("E", 1)), Text(S("e", 2))),
           IfVal("Ne", 1, Text(S("N", 1)), Text(S("n", 2))),
           IfVal("Gt", 1, Text(S("G", 1)), NilNode)>>),
     Row(<<IfVal("Lt", 1, Text(S("L", 1)), Text(S("l", 2))),
           IfVal("Gte", 1, Col(<<Text(S("G", 1)), Text(S("g", 1))>>), Text(S("h", 1))),
           IfVal("Lte", 1, Text(S("M", 1)), NilNode)>>),
     IfVal("Eq", 0, Col(<<Text(S("A", 1)), Text(S("B", 1))>>), Text(S("C", 1))),
     \* 25-28: custom-layout boxes
     Box("vstack", <<Text(S("A", 2)),
                     Row(<<Text(S("B", 1)), Border(Grow(Col(<<Text(S("C", 1))>>), 1))>>)>>),
     Box("hstack", <<Text(S("A", 1)), Text(S("B", 3))>>),
     Col(<<Box("pad", <<Col(<<Text(S("A", 1))>>)>>), Text(S("Z", 1))>>),
     Box("first", <<Text(S("A", 1)), IfNode(AddrFlag, Text(S("B", 1)))>>),
     \* 29-34: column flex
     Height(Col(<<Text(S("A", 1)), Grow(Col(<<Text(S("B", 1))>>), 1)>>), 4),
     Col(<<Grow(Col(<<Text(S("A", 1))>>), 1), Col(<<Grow(Col(<<Text(S("B", 1))>>), 1)>>)>>),
     Height(Col(<<Text(S("A", 1)), Text(S("B", 1)), Grow(Col(<<Text(S("C", 1))>>), 1)>>), 2),
     Border(Gap(Col(<<Grow(Col(<<Text(S("A", 1))>>), 1), Text(S("B", 1)),
                      Border(Grow(Col(<<>>), 2))>>), 1)),
     Col(<<IfNode(AddrFlag, Grow(Col(<<Text(S("A", 1)), Grow(Col(<<>>), 1)>>), 1)),
           Text(S("B", 1))>>),
     Gap(Col(<<Grow(Col(<<Text(S("A", 1))>>), 1), IfNode(AddrFlag, Text(S("B", 1))),
               Grow(Row(<<Text(S("C", 1))>>), 1)>>), 1),
     \* 35-37: iteration bodies whose geometry depends on the element
     Col(<<Each(Col(<<Cond(ElemN, "Eq", 1, Text(S("X", 1)), NilNode), ItemText>>))>>),
     Col(<<Each(Row(<<ItemText, Text(S("!", 1))>>))>>),
     Col(<<Each(Col(<<ItemText, Cond(AddrVal, "Gt", 0, TextPtr(AddrTxt), NilNode)>>))>>),
     \* 38-41: nodes that compile to no op, explicit widths, nesting
     Col(<<NilNode, Text(S("A", 1)), UnknownNode, Row(<<UnknownNode, Text(S("B", 1))>>)>>),
     Row(<<Width(Col(<<Text(S("A", 1))>>), 3), Col(<<Text(S("B", 1))>>), Col(<<Text(S("C", 1))>>)>>),
     Col(<<Row(<<Col(<<Text(S("A", 1))>>), Text(S("B", 2))>>),
           Border(Col(<<Border(Row(<<Text(S("C", 1))>>))>>))>>),
     Col(<<Text(S("L", 6)), Row(<<Text(S("M", 3)), Text(S("N", 3))>>)>>),
     \* 42: flex weights whose float32 share is not the exact quotient
     Row(<<Grow(Col(<<>>), 7), Grow(Col(<<>>), 5)>>),
     \* 43: an iteration body with a flex child between element-bound texts
     Col(<<Each(Width(Row(<<ItemText, Grow(Col(<<>>), 1), Text(S("!", 1))>>), 3))>>),
     \* 44-46: selection lists: unwindowed, windowed, without a selection
     Col(<<Text(S("H", 1)), SelectionList(AddrItems, AddrSel, S("*", 1), 0, ItemText),
           Text(S("F", 1))>>),
     Col(<<SelectionList(AddrItems, AddrSel, <<>>, 1, ItemText), Text(S("F", 1))>>),
     Row(<<TextPtr(AddrTxt),
           SelectionList(AddrItems, NilPtr, <<>>, 0, Row(<<ItemText, Text(S("!", 1))>>))>>),
     \* 47-50: nodes of no known kind as root, branch, case and iteration body
     UnknownNode,
     Col(<<Text(S("A", 1)), IfNode(AddrFlag, UnknownNode), Text(S("B", 1))>>),
     Col(<<Switch(AddrVal, <<0, 1>>, <<UnknownNode, Text(S("Q", 1))>>, NilNode),
           Text(S("B", 1))>>),
     Col(<<Each(UnknownNode), Text(S("B", 1))>>),
     \* 51: a bordered root column with a flex child
     Border(Col(<<Grow(Col(<<Text(S("A", 1))>>), 1)>>)),
     \* 52: an iteration whose items are 16384 rows high
     Col(<<Each(Height(Col(<<ItemText>>), 16384))>>)
  >>

ScreenSizes == {<<8, 6>>, <<4, 3>>, <<108, 2>>}
Texts == {S("x", 1), S("y", 5)}
ItemSeqs == UNION {[1..n -> Elems] : n \in 0..MaxItems}

\* The caller cells a declaration binds (the blocks its pointers point into).
RECURSIVE binds(_)
bindsAll(nodes) == UNION {binds(nodes[j]) : j \in 1..Len(nodes)}
binds(n) ==
  CASE n.k = "Text" -> IF n.static THEN {} ELSE {n.p[1]}
    [] n.k = "Container" -> bindsAll(n.children)
    [] n.k = "Box" -> bindsAll(n.children)
    [] n.k = "IfNode" -> {n.cond[1]} \cup binds(n.then)
    [] n.k = "Cond" -> {n.ptr[1]} \cup binds(n.then) \cup binds(n.els)
    [] n.k = "ForEach" -> {n.items[1]} \cup binds(n.render)
    [] n.k = "Switch" -> {n.ptr[1]} \cup bindsAll(n.cases) \cup binds(n.def)
    [] n.k = "SelectionList" -> ({n.items[1], n.selected[1]} \ {"nil"}) \cup binds(n.render)
    [] OTHER -> {}

-----------------------------------------------------------------------------
(* The state machine: Build, then Execute phase by phase; the caller mutates
   bound values between frames. *)

Init ==
  /\ decl \in 1..Len(Decls)
  /\ tmpl = Build(Decls[decl])
  /\ flag = FALSE
  /\ val = 0
  /\ txt = S("x", 1)
  /\ items = <<>>
  /\ sel = 0
  /\ pool = NewBufferPool
  /\ evloop = NewLoop
  /\ pc = "idle"
  /\ scr = <<0, 0>>
  /\ log = <<>>
  /\ ran = FALSE
  /\ mut = FALSE

\* Execute, phase 1: t.distributeWidths(screenW, nil)
Phase1 ==
  /\ pc = "idle"
  /\ \E s \in ScreenSizes :
       /\ scr' = s
       /\ tmpl' = distributeWidths(tmpl, s[1], NilPtr)
  /\ pc' = "widths"
  /\ UNCHANGED <<decl, flag, val, txt, items, sel, log, ran, mut>>
  /\ UNCHANGED <<pool, evloop>>

\* Execute, phase 2: t.layout(screenH)
Phase2 ==
  /\ pc = "widths"
  /\ tmpl' = layout(tmpl)
  /\ pc' = "layout"
  /\ UNCHANGED <<decl, flag, val, txt, items, sel, scr, log, ran, mut>>
  /\ UNCHANGED <<pool, evloop>>

\* Execute, phase 2b: t.distributeFlexGrow(screenH)
Phase2b ==
  /\ pc = "layout"
  /\ tmpl' = distributeFlexGrow(tmpl, scr[2])
  /\ pc' = "flex"
  /\ UNCHANGED <<decl, flag, val, txt, items, sel, scr, log, ran, mut>>
  /\ UNCHANGED <<pool, evloop>>

\* Execute, phase 3: t.render(buf, 0, 0, screenW), into a cleared buffer
Phase3 ==
  /\ pc = "flex"
  /\ log' = render(tmpl, 0, 0, scr[1])
  /\ pc' = "idle"
  /\ ran' = TRUE
  /\ UNCHANGED <<decl, tmpl, flag, val, txt, items, sel, scr, mut>>
  /\ UNCHANGED <<pool, evloop>>

SetFlag ==
  /\ pc = "idle" /\ "flag" \in binds(Decls[decl])
  /\ flag' = ~flag
  /\ ran' = FALSE /\ mut' = TRUE
  /\ UNCHANGED <<decl, tmpl, val, txt, items, sel, pc, scr, log>>
  /\ UNCHANGED <<pool, evloop>>

SetVal ==
  /\ pc = "idle" /\ "val" \in binds(Decls[decl])
  /\ \E v \in (0..MaxVal) \ {val} : val' = v
  /\ ran' = FALSE /\ mut' = TRUE
  /\ UNCHANGED <<decl, tmpl, flag, txt, items, sel, pc, scr, log>>
  /\ UNCHANGED <<pool, evloop>>

SetTxt ==
  /\ pc = "idle" /\ "txt" \in binds(Decls[decl])
  /\ \E s \in Texts \ {txt} : txt' = s
  /\ ran' = FALSE /\ mut' = TRUE
  /\ UNCHANGED <<decl, tmpl, flag, val, items, sel, pc, scr, log>>
  /\ UNCHANGED <<pool, evloop>>

SetItems ==
  /\ pc = "idle" /\ "items" \in binds(Decls[decl])
  /\ \E q \in ItemSeqs \ {items} : items' = q
  /\ ran' = FALSE /\ mut' = TRUE
  /\ UNCHANGED <<decl, tmpl, flag, val, txt, sel, pc, scr, log>>
  /\ UNCHANGED <<pool, evloop>>

SetSel ==
  /\ pc = "idle" /\ "sel" \in binds(Decls[decl])
  /\ \E i \in (0..(MaxItems - 1)) \ {sel} : sel' = i
  /\ ran' = FALSE /\ mut' = TRUE
  /\ UNCHANGED <<decl, tmpl, flag, val, txt, items, pc, scr, log>>
  /\ UNCHANGED <<pool, evloop>>

\* The sequence is replaced while a frame is between its layout and its
\* render (by another goroutine of the program).
SetItemsMidFrame ==
  /\ pc \in {"layout", "flex"} /\ "items" \in binds(Decls[decl])
  /\ \E q \in ItemSeqs \ {items} : items' = q
  /\ mut' = TRUE
  /\ UNCHANGED <<decl, tmpl, flag, val, txt, sel, pc, scr, log, ran>>
  /\ UNCHANGED <<pool, evloop>>

Next ==
  \/ Phase1 \/ Phase2 \/ Phase2b \/ Phase3
  \/ SetFlag \/ SetVal \/ SetTxt \/ SetItems \/ SetSel

Spec == Init /\ [][Next]_vars

\* The engine on the declarations with a selection list or with a node that
\* compiles to no op.
PoolNext == Frame \/ Swap \/ Clearer \/ PoolStop
FixedInit == Init /\ decl = 1
PoolSpec == FixedInit /\ [][PoolNext]_vars

\* The goroutines are scheduled fairly, and a goroutine blocked in Lock gets
\* the mutex in the end even if another one unlocks and locks it in a loop
\* (the starvation mode of sync.Mutex).
FairPoolSpec == PoolSpec /\ SF_vars(Swap) /\ SF_vars(Clearer)

LoopNext ==
  \/ OnRender \/ CallLater \/ RequestFrame \/ Run \/ RunFor \/ RawMode \/ ProcessFrame
  \/ SelectInput \/ SelectFrame \/ SelectStop \/ ReadInput \/ Stop
LoopSpec == FixedInit /\ [][LoopNext]_vars

\* The loop when the program calls Run again after Run has returned.
RestartNext == LoopNext \/ RunAgain
RestartSpec == FixedInit /\ [][RestartNext]_vars

\* The goroutines are scheduled fairly: a call of Run that has begun goes on,
\* and so does a call of CallLater that has appended its function; a select
\* with several ready cases picks one at random, so a case that is ready
\* again and again is taken. Nothing is assumed of what the program calls.
FairLoopSpec ==
  /\ LoopSpec
  /\ WF_vars(Run /\ evloop.at = "lock") /\ WF_vars(RawMode) /\ WF_vars(ProcessFrame)
  /\ WF_vars(RequestFrame /\ evloop'.callers < evloop.callers)
  /\ SF_vars(SelectFrame) /\ SF_vars(SelectStop)

ListInit == Init /\ decl \in {38} \cup (44..50)
ListSpec == ListInit /\ [][Next]_vars

\* The engine on declarations with an iteration inside a column or a row,
\* with a sequence that may change in the middle of a frame.
MidFrameInit == Init /\ decl \in {7, 8, 36}
MidFrameNext ==
  \/ Phase1 \/ Phase2 \/ Phase2b \/ Phase3
  \/ SetItems \/ SetItemsMidFrame
MidFrameSpec == MidFrameInit /\ [][MidFrameNext]_vars

\* The engine on declarations with texts and with iterations of low and of
\* very high items.
TallInit == Init /\ decl \in {7, 14, 36, 52}
TallNext ==
  \/ Phase1 \/ Phase2 \/ Phase2b \/ Phase3
  \/ SetItems \/ SetTxt
TallSpec == TallInit /\ [][TallNext]_vars

-----------------------------------------------------------------------------
(* Properties *)

\* The sub-templates an op owns.
SubTemplatesOf(op) ==
  {op.ThenTmpl[j] : j \in 1..Len(op.ThenTmpl)}
    \cup {op.ElseTmpl[j] : j \in 1..Len(op.ElseTmpl)}
    \cup {op.IterTmpl[j] : j \in 1..Len(op.IterTmpl)}
    \cup {op.SwitchDef[j] : j \in 1..Len(op.SwitchDef)}
    \cup UNION {{op.SwitchCases[k][j] : j \in 1..Len(op.SwitchCases[k])} :
                  k \in 1..Len(op.SwitchCases)}

\* A template and every sub-template below it.
RECURSIVE AllTemplates(_)
AllTemplates(t) ==
  {t} \cup UNION {UNION {AllTemplates(u) : u \in SubTemplatesOf(t.ops[j])} :
                    j \in 1..Len(t.ops)}

OpIndices(t) == 0..(Len(t.ops) - 1)
Containers(t) == {i \in OpIndices(t) : opAt(t, i).Kind = "OpContainer"}
ChildSet(t, i) == {directChildren(t, i)[j] : j \in 1..Len(directChildren(t, i))}

\* An Execute has completed and nothing has changed since.
AfterExecute == pc = "idle" /\ ran

\* Child c of container p lies inside p's content box as the contract states it.
Contained(t, p, c) ==
  /\ 0 <= geomAt(t, c).LocalX
  /\ 0 <= geomAt(t, c).LocalY
  /\ geomAt(t, c).LocalX + geomAt(t, c).W <= geomAt(t, p).W - borderInset(opAt(t, p))
  /\ ~opAt(t, p).IsRow =>
       geomAt(t, c).LocalY + geomAt(t, c).H <= geomAt(t, p).H - borderInset(opAt(t, p))

\* C1: after every Execute, every direct child of every container of the
\* template lies inside its parent: local_x and local_y are not negative,
\* local_x + w is at most the parent's width less its border inset and, in a
\* column, local_y + h is at most the parent's height less its border inset.
C1_Containment ==
  AfterExecute =>
    \A p \in Containers(tmpl) : \A c \in ChildSet(tmpl, p) : Contained(tmpl, p, c)

ForEachOps(t) == {i \in OpIndices(t) : opAt(t, i).Kind = "OpForEach"}

\* The sum of the heights of the first k recorded items.
RECURSIVE HeightsBefore(_, _)
HeightsBefore(geoms, k) ==
  IF k = 0 THEN 0 ELSE HeightsBefore(geoms, k - 1) + geoms[k].H

\* The item renders of ForEach op i are one per element, in index order, each
\* at the sum of the heights of the items before it.
RendersEveryItem(t, i) ==
  LET op == opAt(t, i)
      calls == forEachCalls(op, 0, 0)
  IN /\ Len(calls) = sliceHeader(op.SlicePtr).Len
     /\ \A k \in 1..Len(calls) :
          /\ calls[k].i = k - 1
          /\ calls[k].y = HeightsBefore(op.iterGeoms, k - 1)

\* C2: after an Execute over a sequence of n elements, every ForEach op of the
\* template, wherever it sits (root, child of a row or column, child of a
\* Box), renders its body n times, in index order, item i at the sum of the
\* heights of the items before it.
C2_ForEachRendersAll ==
  AfterExecute => \A i \in ForEachOps(tmpl) : RendersEveryItem(tmpl, i)

\* The geom array of a template and, per op, those of its sub-templates.
RECURSIVE Geoms(_)
Geoms(t) ==
  [geom |-> t.geom,
   subs |-> [j \in 1..Len(t.ops) |->
               [then |-> [k \in 1..Len(t.ops[j].ThenTmpl) |-> Geoms(t.ops[j].ThenTmpl[k])],
                els |-> [k \in 1..Len(t.ops[j].ElseTmpl) |-> Geoms(t.ops[j].ElseTmpl[k])],
                iter |-> [k \in 1..Len(t.ops[j].IterTmpl) |-> Geoms(t.ops[j].IterTmpl[k])],
                def |-> [k \in 1..Len(t.ops[j].SwitchDef) |-> Geoms(t.ops[j].SwitchDef[k])],
                cases |-> [c \in 1..Len(t.ops[j].SwitchCases) |->
                             [k \in 1..Len(t.ops[j].SwitchCases[c]) |->
                                Geoms(t.ops[j].SwitchCases[c][k])]]]]]

\* What the screen shows after the draw commands.
Screen(cmds) == Cells(cmds, scr[1], scr[2])

\* Executing t again at the current screen size changes neither the geometry
\* nor the screen.
SameAgain(t, shown) ==
  /\ Geoms(ExecuteGeom(t, scr[1], scr[2])) = Geoms(t)
  /\ Screen(ExecuteLog(t, scr[1], scr[2])) = Screen(shown)

\* C3: idempotence: after any Execute, a further Execute with the same caller
\* state and screen size leaves every geom array (template and sub-templates)
\* and the buffer contents as they are; this includes the first Execute after
\* Build and templates with Box ops.
C3_Idempotent == AfterExecute => SameAgain(tmpl, log)

RECURSIVE SumSeq(_)
SumSeq(q) == IF Len(q) = 0 THEN 0 ELSE q[1] + SumSeq(Tail(q))

Rows(t) == {i \in Containers(t) : opAt(t, i).IsRow}
FlexKids(t, p) == SelectSeq(directChildren(t, p), LAMBDA c : opAt(t, c).FlexGrow > 0)
FixedKids(t, p) == SelectSeq(directChildren(t, p), LAMBDA c : opAt(t, c).FlexGrow = 0)
WidthsOf(t, kids) == [j \in 1..Len(kids) |-> geomAt(t, kids[j]).W]

\* F: the total flex-grow of the direct children of row p.
TotalFlexOf(t, p) ==
  SumSeq([j \in 1..Len(FlexKids(t, p)) |-> opAt(t, FlexKids(t, p)[j]).FlexGrow])

\* R: the row's inner width less the fixed children's widths and the gaps.
RemainingOf(t, p) ==
  (geomAt(t, p).W - borderInset(opAt(t, p)))
    - (SumSeq(WidthsOf(t, FixedKids(t, p)))
         + opAt(t, p).Gap * (Len(directChildren(t, p)) - 1))

\* The widths w of the flex children kids of a row are the exact shares of R.
ExactShares(t, kids, w, R, F) ==
  /\ \A j \in 1..(Len(kids) - 1) : w[j] = (R * opAt(t, kids[j]).FlexGrow) \div F
  /\ w[Len(kids)] = R - SumSeq(SubSeq(w, 1, Len(kids) - 1))
  /\ SumSeq(w) = R
  /\ \A j \in 1..Len(kids) : w[j] >= 0

\* C4: after width distribution, in every row with total flex-grow F > 0 and
\* remaining width R > 0, each flex child but the last is floor(R * grow / F)
\* wide, the last takes the rest, the flex widths sum to R and none is
\* negative.
C4_RowFlexExact ==
  pc = "widths" =>
    \A p \in Rows(tmpl) :
      (TotalFlexOf(tmpl, p) > 0 /\ RemainingOf(tmpl, p) > 0) =>
        ExactShares(tmpl, FlexKids(tmpl, p), WidthsOf(tmpl, FlexKids(tmpl, p)),
                    RemainingOf(tmpl, p), TotalFlexOf(tmpl, p))

Cols(t) == {i \in Containers(t) : ~opAt(t, i).IsRow}

\* The flex weight the column pass sees in child c: its own when it is a
\* container, its active branch root's when it is a conditional.
FlexWeight(t, c) ==
  IF opAt(t, c).Kind = "OpContainer" THEN opAt(t, c).FlexGrow
  ELSE IF opAt(t, c).Kind = "OpIf" THEN getIfFlexGrow(t, opAt(t, c))
  ELSE 0

HasFlexChild(t, p) == \E c \in ChildSet(t, p) : FlexWeight(t, c) > 0

HeightsOf(t, kids) == [j \in 1..Len(kids) |-> geomAt(t, kids[j]).H]

\* sum(c.h) + gap * (n - 1) == p.h - border_inset(p)
ColumnFilled(t, p) ==
  SumSeq(HeightsOf(t, directChildren(t, p)))
      + opAt(t, p).Gap * (Len(directChildren(t, p)) - 1)
    = geomAt(t, p).H - borderInset(opAt(t, p))

\* C5 as stated: after Execute, every column with a flex child is filled
\* exactly by its children and gaps, whether or not the content fits and
\* whether or not the column has an explicit height.
C5_ColumnFlexSum ==
  AfterExecute => \A p \in Cols(tmpl) : HasFlexChild(tmpl, p) => ColumnFilled(tmpl, p)

\* j lies below i in the op tree of t (following Parent upwards from j).
RECURSIVE IsDescendant(_, _, _)
IsDescendant(t, j, i) ==
  opAt(t, j).Parent >= 0
    /\ (opAt(t, j).Parent = i \/ IsDescendant(t, opAt(t, j).Parent, i))

Descendants(t, i) == {j \in OpIndices(t) : IsDescendant(t, j, i)}

\* The structure the contract states for an op i that has children.
WellFormedChildren(t, i) ==
  /\ Descendants(t, i) = (i + 1)..(opAt(t, i).ChildEnd - 1)
  /\ \A c \in OpIndices(t) :
       opAt(t, c).Parent = i => opAt(t, c).Depth = opAt(t, i).Depth + 1
  /\ \A j \in opAt(t, i).ChildStart..(opAt(t, i).ChildEnd - 1) : j \in Descendants(t, i)

\* by_depth[d] lists exactly the ops at depth d, each once.
WellFormedByDepth(t) ==
  /\ \A i \in OpIndices(t) : opAt(t, i).Depth + 1 \in 1..Len(t.byDepth)
  /\ \A d \in 1..Len(t.byDepth) :
       /\ {t.byDepth[d][k] : k \in 1..Len(t.byDepth[d])}
            = {i \in OpIndices(t) : opAt(t, i).Depth = d - 1}
       /\ \A k, l \in 1..Len(t.byDepth[d]) : t.byDepth[d][k] = t.byDepth[d][l] => k = l

\* C6: in the built template and in every sub-template, the descendants of
\* an op with children are exactly the indices (i, child_end), every direct
\* child is one level deeper, every index in [child_start, child_end) is a
\* descendant, and by_depth[d] lists exactly the ops of depth d.
C6_OpTree ==
  \A t \in AllTemplates(tmpl) :
    /\ WellFormedByDepth(t)
    /\ \A i \in OpIndices(t) : Descendants(t, i) /= {} => WellFormedChildren(t, i)

IfOps(t) == {i \in OpIndices(t) : opAt(t, i).Kind = "OpIf"}

\* The comparator cop applied to the current value a and the operand b.
Compares(cop, a, b) ==
  \/ cop = "Eq" /\ a = b
  \/ cop = "Ne" /\ a # b
  \/ cop = "Gt" /\ a > b
  \/ cop = "Lt" /\ a < b
  \/ cop = "Gte" /\ a >= b
  \/ cop = "Lte" /\ a <= b

\* The truth of the condition of an If op of the main template, from the
\* caller's current values.
ConditionNow(op) ==
  IF op.CondNode /= <<>>
    THEN Compares(op.CondNode[1].op, Load(op.CondNode[1].ptr), op.CondNode[1].val)
    ELSE Load(op.CondPtr)

\* The branch the contract makes active: then when the condition is true,
\* else when it is false and an else branch was declared.
BranchNow(op) ==
  IF ConditionNow(op) THEN op.ThenTmpl
  ELSE op.ElseTmpl

\* The width the enclosing container (or the screen) offers to op i.
OfferedWidth(t, i) ==
  IF opAt(t, i).Parent >= 0
    THEN geomAt(t, opAt(t, i).Parent).W - borderInset(opAt(t, opAt(t, i).Parent))
    ELSE scr[1]

\* Branch b carries the geometry of a layout pass at width w: every op has
\* the position and width of the pass and at least its height (the column
\* flex pass may have grown it since).
LaidOut(b, w) ==
  LET f == layoutSub(b, w, NilPtr)
  IN \A j \in OpIndices(b) :
       /\ geomAt(b, j).W = geomAt(f, j).W
       /\ geomAt(b, j).LocalX = geomAt(f, j).LocalX
       /\ geomAt(b, j).LocalY >= geomAt(f, j).LocalY
       /\ geomAt(b, j).H >= geomAt(f, j).H

\* The If op i of t shows exactly its active branch, laid out, at its own
\* origin, and has that branch's height.
OneBranch(t, i) ==
  LET op == opAt(t, i)
      g == geomAt(t, i)
      b == BranchNow(op)
  IN IF b = <<>> THEN renderOp(t, i, 0, 0, g.W) = <<>>
     ELSE /\ renderOp(t, i, 0, 0, g.W) = render(b[1], g.LocalX, g.LocalY, g.W)
          /\ LaidOut(b[1], OfferedWidth(t, i))
          /\ g.H = TemplateHeight(b[1])

\* C7: after Execute, every conditional of the template renders exactly one
\* branch: the then branch when the comparator (Eq, Ne, Gt, Lt, Gte, Lte)
\* holds of the current value, else the else branch if one was declared; the
\* branch is laid out and drawn at the conditional's origin, the other
\* branch writes nothing, and the conditional's height is that branch's.
C7_OneBranch == AfterExecute => \A i \in IfOps(tmpl) : OneBranch(tmpl, i)

\* A template built now from the same declaration, executed once at the
\* current screen size.
FreshGeom == ExecuteGeom(Build(Decls[decl]), scr[1], scr[2])
FreshLog == ExecuteLog(Build(Decls[decl]), scr[1], scr[2])

\* C8: mutation visibility: once the caller has changed a bound value, the
\* next Execute's geometry and buffer contents are those a freshly built
\* template produces for the current values; nothing of the earlier values
\* is kept.
C8_MutationVisible ==
  (AfterExecute /\ mut) =>
    /\ tmpl.geom = FreshGeom.geom
    /\ Screen(log) = Screen(FreshLog)

\* The writes of item k (1-based) of the ForEach op i of t, as Execute left
\* the iteration body.
ItemWrites(t, i, k) ==
  LET c == forEachCalls(opAt(t, i), 0, 0)[k]
  IN renderSubTemplate(opAt(t, i).IterTmpl[1], c.x, c.y, c.w, c.elem)

\* The writes of the same element when it is the only one the body has ever
\* been laid out for, drawn at the same position.
ItemAloneWrites(t, i, k) ==
  LET c == forEachCalls(opAt(t, i), 0, 0)[k]
      body == opAt(Build(Decls[decl]), i).IterTmpl[1]
  IN renderSubTemplate(layoutSub(body, c.w, c.elem), c.x, c.y, c.w, c.elem)

\* C9: element rebinding: after an Execute over two or more elements, the
\* writes of the last item (rendered after the others) are those of that
\* element rendered alone at the same position; the earlier elements leave
\* no element base, offset or geometry behind that changes them.
C9_Rebinding ==
  AfterExecute =>
    \A i \in ForEachOps(tmpl) :
      LET n == Len(forEachCalls(opAt(tmpl, i), 0, 0))
      IN n >= 2 => ItemWrites(tmpl, i, n) = ItemAloneWrites(tmpl, i, n)

\* The control-flow op c of t has no active content for the current values.
EmptyChild(t, c) ==
  LET op == opAt(t, c)
  IN \/ op.Kind = "OpIf" /\ BranchNow(op) = <<>>
     \/ op.Kind = "OpForEach" /\ sliceHeader(op.SlicePtr).Len = 0
     \/ op.Kind = "OpSwitch" /\ switchBranch(op) = <<>>

\* The sequence q without its j-th entry.
Without(q, j) == SubSeq(q, 1, j - 1) \o SubSeq(q, j + 1, Len(q))

\* The root container declaration with its j-th child not declared, built
\* and executed once at the current screen size.
ExecutedWithout(j) ==
  ExecuteGeom(Build([Decls[decl] EXCEPT !.children = Without(@, j)]), scr[1], scr[2])

\* Child j of the root container of t takes no room: it has height 0, and
\* the root's height and the other children's positions are those of u, the
\* same declaration executed without that child.
TakesNoRoom(t, u, j) ==
  LET kids == directChildren(t, 0)
      rest == directChildren(u, 0)
  IN /\ geomAt(t, kids[j]).H = 0
     /\ geomAt(t, 0).H = geomAt(u, 0).H
     /\ \A m \in 1..Len(rest) :
          LET k == IF m < j THEN kids[m] ELSE kids[m + 1]
          IN /\ geomAt(t, k).LocalX = geomAt(u, rest[m]).LocalX
             /\ geomAt(t, k).LocalY = geomAt(u, rest[m]).LocalY

\* The root of the declaration is a row or column all of whose children
\* compile to an op.
RootHoldsAll ==
  /\ Decls[decl].k = "Container"
  /\ Len(directChildren(tmpl, 0)) = Len(Decls[decl].children)

\* C10: after Execute, a control-flow child with no active content (a false
\* conditional without else, an iteration over an empty sequence, a switch
\* with no match and no default) has height 0 and leaves its parent's height
\* and its siblings' positions as if it were not declared, for any gap, in
\* rows and in columns.
C10_EmptyChildTakesNoRoom ==
  (AfterExecute /\ RootHoldsAll) =>
    \A j \in 1..Len(directChildren(tmpl, 0)) :
      EmptyChild(tmpl, directChildren(tmpl, 0)[j]) =>
        TakesNoRoom(tmpl, ExecutedWithout(j), j)

\* The selection-list objects the caller handed to Build, as the ops of t and
\* of its sub-templates point to them.
SelectionLists(t) ==
  {opAt(u, i).SelectionListPtr[1] :
     <<u, i>> \in {<<u, i>> \in UNION {{u} \X OpIndices(u) : u \in AllTemplates(t)} :
                    opAt(u, i).SelectionListPtr /= <<>>}}

\* C11: Build and Execute never write to caller-owned state reachable through
\* a binding; here for the selection-list object, which the caller declared
\* with its length and window offset at zero: it is the same after Build and
\* after every phase of Execute as the caller made it.
C11_BindingsReadOnly ==
  \A l \in SelectionLists(tmpl) : l.len = 0 /\ l.offset = 0

\* C12: the element base is transient: in every state after Execute has
\* returned, elem_base of the main template and of every iteration body and
\* branch sub-template is null.
C12_ElemBaseTransient ==
  AfterExecute => \A t \in AllTemplates(tmpl) : t.elemBase = NilPtr

\* The largest element of a sequence of heights, 0 for none.
RECURSIVE MaxSeq(_)
MaxSeq(q) == IF Len(q) = 0 THEN 0 ELSE Max(q[1], MaxSeq(Tail(q)))

\* Direct child number k (from 1) of container p is at the place the cursor
\* of the container has after the k - 1 children before it and k - 1 gaps.
PlacedInOrder(t, p, k) ==
  LET kids == directChildren(t, p)
      off == contentOff(opAt(t, p))
      before == IF opAt(t, p).IsRow THEN SubSeq(WidthsOf(t, kids), 1, k - 1)
                ELSE SubSeq(HeightsOf(t, kids), 1, k - 1)
      cursor == off + SumSeq(before) + opAt(t, p).Gap * (k - 1)
  IN IF opAt(t, p).IsRow
       THEN geomAt(t, kids[k]).LocalY = off /\ geomAt(t, kids[k]).LocalX = cursor
       ELSE geomAt(t, kids[k]).LocalX = off /\ geomAt(t, kids[k]).LocalY = cursor

\* C13: after Execute, in a row the k-th direct child has local_y at the
\* border offset and local_x at the border offset plus the widths of the
\* children before it plus one gap per child before it, and the row's height
\* is the largest child height, plus 2 with a border.
C13_RowPlacement ==
  AfterExecute =>
    \A p \in Rows(tmpl) :
      /\ \A k \in 1..Len(directChildren(tmpl, p)) : PlacedInOrder(tmpl, p, k)
      /\ geomAt(tmpl, p).H =
           MaxSeq(HeightsOf(tmpl, directChildren(tmpl, p))) + borderInset(opAt(tmpl, p))

\* The gaps between n children.
GapsOf(op, n) == IF n > 1 THEN op.Gap * (n - 1) ELSE 0

\* C14: after Execute, in a column the k-th direct child has local_x at the
\* border offset and local_y at the border offset plus the heights of the
\* children before it plus one gap per child before it, and the column's
\* content height is the sum of the child heights plus the gaps, plus 2 with a
\* border.
C14_ColumnPlacement ==
  AfterExecute =>
    \A p \in Cols(tmpl) :
      /\ \A k \in 1..Len(directChildren(tmpl, p)) : PlacedInOrder(tmpl, p, k)
      /\ geomAt(tmpl, p).ContentH =
           SumSeq(HeightsOf(tmpl, directChildren(tmpl, p)))
             + GapsOf(opAt(tmpl, p), Len(directChildren(tmpl, p)))
             + borderInset(opAt(tmpl, p))

\* The selection lists that are direct children of the root of t.
ListOps(t) ==
  {i \in OpIndices(t) : opAt(t, i).Kind = "OpSelectionList" /\ opAt(t, i).Parent = 0}

\* The visible window [lo, hi) of a list of n items as the contract states it.
ListWindow(op, n) ==
  LET l == op.SelectionListPtr[1]
  IN IF l.MaxVisible > 0
       THEN [lo |-> l.offset, hi |-> Min(n, l.offset + l.MaxVisible)]
       ELSE [lo |-> 0, hi |-> n]

\* A list shows the text of the first op of its body, and nothing of a body
\* that starts with another kind of op.
ListHasContent(op) ==
  /\ op.IterTmpl /= <<>> /\ Len(op.IterTmpl[1].ops) > 0
  /\ op.IterTmpl[1].ops[1].Kind \in {"OpText", "OpTextPtr", "OpTextOff"}

\* The content of item k (from 0).
ListContent(op, k) ==
  LET first == op.IterTmpl[1].ops[1]
  IN CASE first.Kind = "OpText" -> first.StaticStr
       [] first.Kind = "OpTextPtr" -> Load(first.StrPtr)
       [] first.Kind = "OpTextOff" /\ first.StrOff = FieldOff("Name") -> items[k + 1].Name

\* What the render of the root's child i wrote.
ListWrites(t, i) == renderOp(t, i, geomAt(t, 0).LocalX, geomAt(t, 0).LocalY, geomAt(t, 0).W)

\* The writes of list i are those of its window: row j of the window on line
\* y + j, first the marker on the selected index and spaces of its width on
\* the others, then the content at x + marker width.
WindowRows(t, i) ==
  LET op == opAt(t, i)
      n == Len(items)
      win == ListWindow(op, n)
      rows == Max(win.hi - win.lo, 0)
      x == geomAt(t, 0).LocalX + geomAt(t, i).LocalX
      y == geomAt(t, 0).LocalY + geomAt(t, i).LocalY
      per == IF ListHasContent(op) THEN 2 ELSE 1
      writes == ListWrites(t, i)
  IN /\ Len(writes) = rows * per
     /\ \A j \in 0..(rows - 1) :
          /\ writes[j * per + 1] =
               [c |-> "str", x |-> x, y |-> y + j,
                s |-> IF op.SelectedPtr /= NilPtr /\ win.lo + j = sel
                        THEN op.Marker ELSE Chars(" ", op.MarkerWidth),
                w |-> geomAt(t, 0).W, h |-> 1]
          /\ per = 2 =>
               writes[j * per + 2] =
                 [c |-> "str", x |-> x + op.MarkerWidth, y |-> y + j,
                  s |-> ListContent(op, win.lo + j),
                  w |-> geomAt(t, 0).W - op.MarkerWidth, h |-> 1]

\* The number of rows the render of list i wrote.
RowsWritten(t, i) == Len(ListWrites(t, i)) \div (IF ListHasContent(opAt(t, i)) THEN 2 ELSE 1)

IsSkipped(node) == node.k \in {"Nil", "Unknown"}

\* The declaration without the children of rows and columns that are nil or
\* of no known kind.
RECURSIVE Strip(_)
Strip(node) ==
  IF node.k /= "Container" THEN node
  ELSE LET kept == SelectSeq(node.children, LAMBDA c : ~IsSkipped(c))
       IN [node EXCEPT !.children = [j \in 1..Len(kept) |-> Strip(kept[j])]]

\* A template with no op: nothing in by_depth, no geometry, no height, and
\* its render writes nothing.
IsEmptyTemplate(u) ==
  /\ Len(u.ops) = 0 /\ Len(u.geom) = 0
  /\ \A d \in 1..Len(u.byDepth) : u.byDepth[d] = <<>>
  /\ TemplateHeight(u) = 0
  /\ render(u, 0, 0, scr[1]) = <<>>
  /\ renderSubTemplate(u, 0, 0, scr[1], NilPtr) = <<>>

\* The sub-templates of a child of the root that the declaration builds from
\* a node of no known kind (a branch of a conditional, a case of a switch,
\* the body of an iteration), each with whether it is the one now chosen.
SkippedSubTemplates(node, op) ==
  (IF node.k = "IfNode" /\ node.then.k = "Unknown"
     THEN {<<op.ThenTmpl, Load(node.cond)>>} ELSE {})
    \cup (IF node.k = "ForEach" /\ node.render.k = "Unknown"
            THEN {<<op.IterTmpl, TRUE>>} ELSE {})
    \cup (IF node.k = "Switch"
            THEN {<<op.SwitchCases[c], Load(node.ptr) = node.vals[c]>> :
                    c \in {c \in 1..Len(node.cases) : node.cases[c].k = "Unknown"}}
            ELSE {})

\* C16: a nil node or a node of no known kind compiles to no op and the
\* sentinel index -1: the template of a declaration is the one built without
\* such children, ops, by_depth and child ranges included; a template whose
\* root, conditional branch, switch case or iteration body is such a node is
\* empty, and Execute on it completes, writes nothing and has height 0, also
\* as the chosen branch of its op.
C16_UnknownSkipped ==
  /\ Build(Decls[decl]) = Build(Strip(Decls[decl]))
  /\ Decls[decl].k = "Container" =>
       \A j \in 1..Len(Decls[decl].children) :
         LET c == Decls[decl].children[j]
             t == NewTemplate(MainDepths)
         IN /\ IsSkipped(c) <=> compileIndex(t, c) = -1
            /\ IsSkipped(c) <=> compile(t, c, -1, 0, NilPtr, 0) = t
  /\ IsSkipped(Decls[decl]) =>
       /\ IsEmptyTemplate(tmpl)
       /\ AfterExecute => log = <<>>
  /\ (Decls[decl].k = "Container" /\ RootHoldsAll) =>
       \A j \in 1..Len(Decls[decl].children) :
         \A u \in SkippedSubTemplates(Decls[decl].children[j],
                                      opAt(tmpl, directChildren(tmpl, 0)[j])) :
           /\ u[1] /= <<>> /\ IsEmptyTemplate(u[1][1])
           /\ (AfterExecute /\ u[2]) =>
                /\ geomAt(tmpl, directChildren(tmpl, 0)[j]).H = 0
                /\ renderOp(tmpl, directChildren(tmpl, 0)[j], 0, 0, scr[1]) = <<>>

\* A declaration whose root is of no known kind has been executed, or one
\* with such a node as the branch of a conditional that is true.
C16_Witness ==
  /\ AfterExecute
  /\ \/ Decls[decl].k = "Unknown"
     \/ /\ flag /\ Decls[decl].k = "Container"
        /\ \E j \in 1..Len(Decls[decl].children) :
             /\ Decls[decl].children[j].k = "IfNode"
             /\ Decls[decl].children[j].then.k = "Unknown"

\* C17: when Swap returns, the current buffer is the other one, it is the
\* buffer returned, and it holds no cell drawn in an earlier frame, under
\* every interleaving with the clearer.
C17_SwapReturnsCleared ==
  pool.at = "return" =>
    /\ pool.current = 1 - pool.old /\ pool.next = pool.current
    /\ ~pool.cells[pool.next + 1]

\* Function i, the i-th passed to CallLater, has been run by the loop.
Executed(i) == \E k \in 1..Len(evloop.done) : evloop.done[k] = i

\* Every function passed to CallLater is in the queue, in the batch the loop
\* is running or has been run, once, in the order of the calls.
InCallOrder ==
  evloop.done \o evloop.queue \o evloop.callLaterQueue = [i \in 1..evloop.calls |-> i]

\* A loop waiting in its select with functions in the queue has a frame
\* request in the channel, or a caller that is about to send one.
FrameRequested ==
  (evloop.at = "select" /\ evloop.callLaterQueue /= <<>>) =>
    \/ evloop.frameChan = 1
    \/ evloop.callers > 0

\* A frame that has ended has run every function enqueued before it started
\* (mark is the number of calls made when the latest frame started).
RunByNextFrame ==
  evloop.at = "select" => \A i \in 1..evloop.mark : Executed(i)

\* C18: CallLater from any goroutine: the functions are run once each, by the
\* loop, in the order they were enqueued; a frame runs every function
\* enqueued before it started; a queued function always has a frame request
\* standing for it, whatever requests were dropped or drained; and every
\* function is run in the end once Run has been called, unless the loop is
\* stopped or could not enter raw mode.
C18_CallLater ==
  /\ [](InCallOrder /\ RunByNextFrame /\ FrameRequested)
  /\ \A i \in 1..MaxCalls :
       (evloop.calls >= i /\ evloop.at /= "new") ~>
         (Executed(i) \/ evloop.stopChan = "closed" \/ evloop.err)

\* C18 as first stated: every function passed to CallLater is run in the end
\* (here: every function in the queue of a loop that has entered raw mode).
C18_AlwaysExecuted ==
  \A i \in 1..MaxCalls :
    (evloop.calls >= i /\ evloop.at \notin {"new", "lock", "raw"} /\ ~evloop.err)
      ~> Executed(i)

\* Every function has been run, with a frame request dropped or drained on
\* the way.
C18_Witness ==
  /\ evloop.calls = MaxCalls /\ \A i \in 1..MaxCalls : Executed(i)
  /\ evloop.shed /\ evloop.stopChan = "open"

C20_RunForStops ==
  evloop.timer = "done" => evloop.stopChan = "closed"

\* The loop goroutine is in the drain phase of a frame.
Draining == evloop.at \in {"frame", "exec"}

\* The loop goroutine is past the drain phase of a frame.
Rendering == evloop.at \in {"clear", "render", "flush"}

\* The order of the phases: the drain ends only on an empty queue with the
\* swapped batch run, and goes to the clear and render, or to the flush when
\* no render callback is set; the render follows the clear, the flush the
\* render, and the frame ends with the flush; no function of the queue runs
\* from the clear to the end of the frame.
PhaseOrder ==
  /\ (Draining /\ ~Draining') =>
       /\ evloop.callLaterQueue = <<>> /\ evloop.queue = <<>>
       /\ evloop'.at = IF evloop.onRender THEN "clear" ELSE "flush"
  /\ evloop.at = "clear" => evloop'.at \in {"clear", "render"}
  /\ evloop.at = "render" => evloop'.at \in {"render", "flush"}
  /\ evloop.at = "flush" => evloop'.at \in {"flush", "select"}
  /\ (evloop'.at = "select" /\ evloop.at /= "select") => evloop.at = "flush"
  /\ Rendering => evloop'.done = evloop.done

\* C21: a frame of the loop: the queue is drained until it is found empty,
\* functions enqueued by functions of this frame included; then the render
\* callback runs, on the buffer as Clear left it; then the flush; no queued
\* function runs from the clear on; and the frame comes to its end.
C21_FramePhases ==
  /\ [][PhaseOrder]_vars
  /\ [](evloop.at = "render" => evloop.cleared /\ evloop.onRender)
  /\ Draining ~> (evloop.at = "select")

\* A frame is being rendered after it ran a function that another function
\* of the same drain phase enqueued.
C21_Witness ==
  /\ evloop.at = "render" /\ evloop.mark = 1 /\ evloop.calls = MaxCalls
  /\ \A i \in 1..MaxCalls : Executed(i)
  /\ evloop.callers = 0

\* The template with every width replaced by a value no frame stores.
Unwritten(t) ==
  [t EXCEPT !.geom = [j \in DOMAIN t.geom |-> [t.geom[j] EXCEPT !.W = -32768]]]

\* Phase 1 at the current screen width and data stores a width in op i.
WidthWritten(t, i) ==
  geomAt(distributeWidths(Unwritten(t), scr[1], NilPtr), i).W /= -32768

\* C22: after phase 1 of an Execute every op of the template has had its
\* width written in that frame: none keeps the width of an earlier frame or
\* its initial zero.
C22_EveryWidthWritten ==
  pc = "widths" => \A i \in OpIndices(tmpl) : WidthWritten(tmpl, i)

\* The render of ForEach op i makes one call per element of the sequence as
\* it is at render time, each with a slot of the scratch of its own.
ScratchHolds(t, i) ==
  LET op == opAt(t, i)
      calls == forEachCalls(op, 0, 0)
  IN /\ Len(calls) = sliceHeader(op.SlicePtr).Len
     /\ \A k \in 1..Len(calls) : k <= Len(op.iterGeoms) /\ calls[k].i = k - 1

\* C23: the scratch of an iteration holds a slot for every index that is laid
\* out or rendered, whatever the sequence did since the previous frame or
\* between the layout and the render: every element present at render time
\* is rendered (pc = "flex" is the state the render starts from).
C23_ScratchResized ==
  pc = "flex" => \A i \in ForEachOps(tmpl) : ScratchHolds(tmpl, i)

\* The body of ForEach op i as the layout pass leaves it for element k (from
\* 0): widths and layout of the body with elemBase at that element.
BodyLaidOutFor(t, i, k) ==
  LET op == opAt(t, i)
  IN layoutSub(op.IterTmpl[1], op.iterGeoms[k + 1].W,
               PtrAdd(sliceHeader(op.SlicePtr).Data, k * op.ElemSize))

\* The geometry the render of item k of ForEach op i reads (the geom array of
\* the body) is the geometry the layout pass produced for element k.
OwnGeometry(t, i, k) ==
  LET body == opAt(t, i).IterTmpl[1]
      own == BodyLaidOutFor(t, i, k)
  IN \A j \in OpIndices(body) :
       /\ geomAt(body, j).W = geomAt(own, j).W
       /\ geomAt(body, j).H = geomAt(own, j).H
       /\ geomAt(body, j).LocalX = geomAt(own, j).LocalX
       /\ geomAt(body, j).LocalY = geomAt(own, j).LocalY

\* C24: after an Execute every rendered item of an iteration was drawn with
\* the child widths, local positions and heights that the layout pass
\* produced for its own element.
C24_ItemGeometry ==
  AfterExecute =>
    \A i \in ForEachOps(tmpl) :
      \A k \in 0..(Len(forEachCalls(opAt(tmpl, i), 0, 0)) - 1) : OwnGeometry(tmpl, i, k)

\* C25: over any sequence of calls of Run and Stop on one Loop, stopChan is
\* closed at most once: no call of Stop panics on the close of a closed
\* channel.
C25_ClosedOnce == ~evloop.panic

\* C27: a failed start leaves the loop not running: when Run has returned the
\* error of EnterRawMode, running is false, so that a later Run starts again.
C27_FailedStartNotRunning ==
  (evloop.at = "returned" /\ evloop.err /\ ~evloop.stopCalled) => ~evloop.running

\* The clearer goroutine is at its call of ClearDirty on buffer b.
ClearerClears(b) == pool.cat = "clear" /\ pool.buf = b

\* C26: no buffer of the pool is operated on by two parties at once: the
\* clearer is not at its ClearDirty on the current buffer while the render
\* loop holds it between two Swaps, and not at its ClearDirty on the buffer
\* that Swap is clearing synchronously.
C26_OnePartyPerBuffer ==
  /\ pool.at = "frame" => ~ClearerClears(pool.current)
  /\ pool.at = "clear" => ~ClearerClears(pool.next)

\* C29: after Stop the clearer goroutine exits, whether it was waiting or
\* clearing; every call of Swap returns, before or after Stop; and nobody is
\* left holding the mutex.
C29_PoolProgress ==
  /\ (~pool.clearerActive) ~> (pool.cat = "exit")
  /\ (pool.at /= "frame") ~> (pool.at = "frame")
  /\ [](pool.at \in {"frame", "return"} /\ pool.cat \in {"exit", "wait"}
          => pool.mu = "free")

\* A Swap that cleared its buffer itself returns after the clearer has
\* exited.
C29_Witness ==
  /\ pool.cat = "exit" /\ pool.at = "return" /\ pool.frames > 1
  /\ pool.dirty[pool.old + 1] /\ ~pool.dirty[pool.next + 1]

\* The content of the declaration, laid out at the current width, is no
\* higher than the screen.
ContentFits ==
  TemplateHeight(layout(distributeWidths(Build(Decls[decl]), scr[1], NilPtr))) <= scr[2]

\* The root of the template is a column without explicit height that has a
\* flex child.
RootIsFlexColumn ==
  /\ Len(tmpl.ops) > 0 /\ 0 \in Cols(tmpl)
  /\ opAt(tmpl, 0).Height = 0 /\ HasFlexChild(tmpl, 0)

\* C28: after Execute(buf, W, H) on a template whose root is a column with a
\* flex child and whose content fits in H, the root is H high and so is the
\* template, with or without a border on the root.
C28_RootFillsScreen ==
  (AfterExecute /\ RootIsFlexColumn /\ ContentFits) =>
    geomAt(tmpl, 0).H = scr[2] /\ TemplateHeight(tmpl) = scr[2]

\* The largest value of the int16 fields of Geom.
MaxInt16 == 32767

\* The heights recorded for the items of ForEach op i that the render draws.
ItemHeights(t, i) ==
  [k \in 1..Len(forEachCalls(opAt(t, i), 0, 0)) |-> opAt(t, i).iterGeoms[k].H]

\* The height of ForEach op i is the sum of its item heights, and each item
\* lies at the sum of the heights before it, at or below the item before.
ExactHeights(t, i) ==
  LET g == opAt(t, i).iterGeoms
      hs == ItemHeights(t, i)
  IN /\ geomAt(t, i).H = SumSeq(hs)
     /\ \A k \in 1..Len(hs) :
          /\ g[k].LocalY = HeightsBefore(g, k - 1)
          /\ g[k].LocalY >= 0
          /\ k > 1 => g[k].LocalY >= g[k - 1].LocalY

\* The string of text op i of the main template.
TextOf(t, i) ==
  IF opAt(t, i).Kind = "OpText" THEN opAt(t, i).StaticStr ELSE Load(opAt(t, i).StrPtr)

TextOps(t) == {i \in OpIndices(t) : opAt(t, i).Kind \in {"OpText", "OpTextPtr"}}

====
